---- MODULE Spec2Model ----
(***************************************************************************)
(* Model of the bazel-metrics analyzer: the repository scanner             *)
(* (analyzer/pkg/scanner, Scanner.Scan and Scanner.parseBuildFile) and the *)
(* metrics calculator (analyzer/pkg/metrics, Calculator.Calculate).        *)
(*                                                                         *)
(* Paths, file names and manifest texts are strings; the string functions  *)
(* of Go's strings and path/filepath packages are modelled by operators    *)
(* that work on the characters.  Percentages are float64 in the source and *)
(* exact rationals <<numerator, denominator>> here.                        *)
(***************************************************************************)
EXTENDS Integers, Sequences, FiniteSets, TLC

VARIABLES
    repoPath,   \* Scanner.repoPath
    files,      \* the tree: absolute paths of the regular files below the root
    content,    \* the tree: text of every manifest file
    fault,      \* the tree: the one entry whose system call fails, if any
    pc,         \* position of the program
    todo,       \* filepath.Walk: entries still to be reported, in order
    dirMap,     \* Scan: dirMap
    pending,    \* Scan: keys of dirMap the range loop has not yielded yet
    result,     \* Scan: result
    scanErr,    \* Scan: the returned error
    report,     \* Calculate: the returned report
    prev,       \* result and report of the previous Scan+Calculate, if any
    scans,      \* number of Scan calls started
    ptext,      \* parseBuildFile on its own: the manifest text
    pcounts,    \* parseBuildFile on its own: the returned counts, if any
    cli,        \* main and Runner.Run: flags, candidates, speed report, exit
    order       \* filepath.Walk: the entries reported to the callback so far

vars == <<repoPath, files, content, fault, pc, todo, dirMap, pending, result,
          scanErr, report, prev, scans, ptext, pcounts,
                   cli, order>>

-----------------------------------------------------------------------------
(* Bounds *)

MaxFiles == 4
MaxScans == 2
MaxLines == 3
MaxPkgs == 3

-----------------------------------------------------------------------------
(* Strings *)

HasPrefix(s, p) == Len(s) >= Len(p) /\ SubSeq(s, 1, Len(p)) = p

HasSuffix(s, suf) ==
    Len(s) >= Len(suf) /\ SubSeq(s, Len(s) - Len(suf) + 1, Len(s)) = suf

CharAt(s, i) == SubSeq(s, i, i)

\* byte value of the characters that occur in the paths of the model
Ord(c) ==
    CASE c = "(" -> 40 [] c = ")" -> 41 [] c = "-" -> 45 [] c = "." -> 46 [] c = "/" -> 47
      [] c = "A" -> 65 [] c = "B" -> 66 [] c = "D" -> 68 [] c = "E" -> 69 [] c = "I" -> 73
      [] c = "L" -> 76 [] c = "M" -> 77 [] c = "R" -> 82 [] c = "U" -> 85
      [] c = "_" -> 95
      [] c = "a" -> 97 [] c = "b" -> 98 [] c = "c" -> 99 [] c = "d" -> 100
      [] c = "e" -> 101 [] c = "g" -> 103 [] c = "h" -> 104 [] c = "i" -> 105
      [] c = "l" -> 108
      [] c = "m" -> 109 [] c = "n" -> 110 [] c = "o" -> 111 [] c = "p" -> 112
      [] c = "r" -> 114 [] c = "s" -> 115 [] c = "t" -> 116 [] c = "v" -> 118
      [] c = "x" -> 120 [] c = "y" -> 121 [] c = "z" -> 122

\* Go's < on strings: bytewise lexicographic
RECURSIVE StrLess(_, _)
StrLess(a, b) ==
    IF b = "" THEN FALSE
    ELSE IF a = "" THEN TRUE
    ELSE IF Ord(CharAt(a, 1)) < Ord(CharAt(b, 1)) THEN TRUE
    ELSE IF Ord(CharAt(a, 1)) > Ord(CharAt(b, 1)) THEN FALSE
    ELSE StrLess(SubSeq(a, 2, Len(a)), SubSeq(b, 2, Len(b)))

\* index of the last "/" of s, 0 when there is none
RECURSIVE LastSlash(_, _)
LastSlash(s, i) ==
    IF i = 0 THEN 0
    ELSE IF CharAt(s, i) = "/" THEN i
    ELSE LastSlash(s, i - 1)

\* index of the first "/" of s at or after i, Len(s)+1 when there is none
RECURSIVE FirstSlash(_, _)
FirstSlash(s, i) ==
    IF i > Len(s) THEN Len(s) + 1
    ELSE IF CharAt(s, i) = "/" THEN i
    ELSE FirstSlash(s, i + 1)

\* filepath.Base and filepath.Dir of a clean absolute path below "/"
Base(path) == SubSeq(path, LastSlash(path, Len(path)) + 1, Len(path))

Dir(path) ==
    IF LastSlash(path, Len(path)) <= 1 THEN "/"
    ELSE SubSeq(path, 1, LastSlash(path, Len(path)) - 1)

\* filepath.Rel(base, target) for a target at or below base
Rel(base, target) ==
    IF target = base THEN "."
    ELSE SubSeq(target, Len(base) + 2, Len(target))

\* the segments of a relative path
RECURSIVE Segments(_)
Segments(p) ==
    IF FirstSlash(p, 1) > Len(p) THEN <<p>>
    ELSE <<SubSeq(p, 1, FirstSlash(p, 1) - 1)>>
             \o Segments(SubSeq(p, FirstSlash(p, 1) + 1, Len(p)))

\* a set of strings as the sequence in increasing order (sort.Strings)
RECURSIVE SortStrings(_)
SortStrings(S) ==
    IF S = {} THEN <<>>
    ELSE LET m == CHOOSE x \in S : \A y \in S \ {x} : StrLess(x, y)
         IN  <<m>> \o SortStrings(S \ {m})

-----------------------------------------------------------------------------
(* The manifest target counter: Scanner.parseBuildFile and the patterns *)

\* \s of Go's regexp syntax: [\t\n\f\r ]
IsSpace(c) == c \in {" ", "\t", "\n", "\f", "\r"}

\* first index at or after i that does not hold a \s character
RECURSIVE SkipSpace(_, _)
SkipSpace(text, i) ==
    IF i > Len(text) THEN i
    ELSE IF IsSpace(CharAt(text, i)) THEN SkipSpace(text, i + 1)
    ELSE i

\* (?m)^ : the beginning of the text or the position after a line feed
AtLineStart(text, i) == i = 1 \/ CharAt(text, i - 1) = "\n"

\* MatchAt for a pattern without the anchor (?m)^
MatchAtUnanchored(name, text, i) ==
    LET j == SkipSpace(text, i)
        k == SkipSpace(text, j + Len(name))
    IN  IF /\ j + Len(name) - 1 <= Len(text)
           /\ SubSeq(text, j, j + Len(name) - 1) = name
           /\ k <= Len(text)
           /\ CharAt(text, k) = "("
        THEN k ELSE 0

\* `(?m)^\s*name\s*\(` tried at index i: the index of the "(" that ends the
\* match, 0 when there is no match starting at i
MatchAt(name, text, i) ==
    LET j == SkipSpace(text, i)
        k == SkipSpace(text, j + Len(name))
    IN  IF /\ AtLineStart(text, i)
           /\ j + Len(name) - 1 <= Len(text)
           /\ SubSeq(text, j, j + Len(name) - 1) = name
           /\ k <= Len(text)
           /\ CharAt(text, k) = "("
        THEN k ELSE 0

\* len(regex.FindAllString(text, -1)): leftmost non-overlapping matches
RECURSIVE FindAllCount(_, _, _)
FindAllCount(name, text, i) ==
    IF i > Len(text) THEN 0
    ELSE IF MatchAt(name, text, i) > 0
         THEN 1 + FindAllCount(name, text, MatchAt(name, text, i) + 1)
         ELSE FindAllCount(name, text, i + 1)

\* index of the first line feed of data at or after i, Len(data)+1 if none
RECURSIVE SkipToNl(_, _)
SkipToNl(data, i) ==
    IF i > Len(data) THEN Len(data) + 1
    ELSE IF CharAt(data, i) = "\n" THEN i
    ELSE SkipToNl(data, i + 1)

\* the lines bufio.Scanner yields for a file: split at line feeds, a final
\* empty line dropped, one trailing carriage return stripped from each
RECURSIVE ScanLines(_)
ScanLines(data) ==
    IF data = "" THEN <<>>
    ELSE LET nl   == SkipToNl(data, 1)
             line == SubSeq(data, 1, nl - 1)
             tok  == IF HasSuffix(line, "\r")
                     THEN SubSeq(line, 1, Len(line) - 1) ELSE line
         IN  <<tok>> \o ScanLines(SubSeq(data, nl + 1, Len(data)))

\* the strings.Builder of parseBuildFile: every line followed by "\n"
RECURSIVE JoinLines(_)
JoinLines(lines) ==
    IF lines = <<>> THEN ""
    ELSE Head(lines) \o "\n" \o JoinLines(Tail(lines))

regexNames ==
    [goTests |-> "go_test", goLibs |-> "go_library", goBins |-> "go_binary",
     pyTests |-> "py_test", pyLibs |-> "py_library", pyBins |-> "py_binary",
     rustTests |-> "rust_test", rustLibs |-> "rust_library",
     rustBins |-> "rust_binary"]

\* the buildTargets counted in a text
countTargets(text) ==
    [f \in DOMAIN regexNames |-> FindAllCount(regexNames[f], text, 1)]

\* parseBuildFile on the bytes of a file that was opened and read to the end
parseText(data) == countTargets(JoinLines(ScanLines(data)))

-----------------------------------------------------------------------------
(* The tree that is scanned *)

RepoPaths == {"/r"}

\* the files a tree is drawn from, relative to the root
FileU ==
    {"x.go", "a/x.go", "a/x_test.go", "a/BUILD", "a/BUILD.bazel",
     "a/test_m.py", "a/l.rs", "a/c/x.go", "b/x.go", "b/m.py", "vendor/a/x.go"}

\* the files a tree with excluded directories is drawn from
ExclFileU ==
    {"x.go", "a/x.go", "a/c/x.go", "a-b/x_test.go", "a/BUILD", "vendor/x.go",
     "vendor/a/x.go", "a/vendor/x_test.go", "bazel-x/BUILD", "bazel-x/m.py",
     ".h/x.go", "a/.git/l.rs"}

\* the texts a manifest is drawn from
ManifestTexts ==
    {"go_library(\n    name = \"a\",\n)\n\ngo_test(\n    name = \"a_test\",\n)\n",
     "py_test(name = \"t\")\nrust_test(name = \"u\")\n  rust_test (\ngo_binary("}

IsManifestName(filename) == filename = "BUILD" \/ filename = "BUILD.bazel"

\* the directories of the tree: the root and every ancestor of a file
RECURSIVE Ancestors(_, _)
Ancestors(root, path) ==
    IF Len(path) <= Len(root) THEN {}
    ELSE {Dir(path)} \cup Ancestors(root, Dir(path))

Dirs == {repoPath} \cup UNION {Ancestors(repoPath, f) : f \in files}

IsDir(path) == path \in Dirs

\* readDirNames(path): the entries of a directory, sorted by name
Children(path) ==
    {e \in files \cup Dirs : e # repoPath /\ Dir(e) = path}

NoFault == [kind |-> "none", path |-> ""]

\* the system calls that may fail, by kind and path relative to the root:
\* lstat of an entry, the listing of a directory, the opening of a manifest,
\* the reading of a manifest
FaultU ==
    {<<"lstat", "a/BUILD">>, <<"readdir", "a/c">>, <<"lstat", "vendor">>,
     <<"open", "a/BUILD">>, <<"read", "a/BUILD.bazel">>}

\* at most one system call fails, on an entry of the tree
Faults ==
    {NoFault} \cup
    {[kind |-> f[1], path |-> repoPath \o "/" \o f[2]] :
        f \in {g \in FaultU : (repoPath \o "/" \o g[2]) \in files \cup Dirs}}

\* the system calls that may fail in a scan of a tree with a failing entry;
\* "" is the root itself
EntryFaultU ==
    {<<"lstat", "">>, <<"readdir", "">>, <<"lstat", "a/x.go">>,
     <<"lstat", "a/BUILD">>, <<"readdir", "a">>, <<"lstat", "a/c">>,
     <<"readdir", "a/c">>}

\* the path of an entry given relative to the root
PathOf(rel) == IF rel = "" THEN repoPath ELSE repoPath \o "/" \o rel

\* at most one of the calls of EntryFaultU fails, on an entry of the tree
EntryFaults ==
    {NoFault} \cup
    {[kind |-> f[1], path |-> PathOf(f[2])] :
        f \in {g \in EntryFaultU : PathOf(g[2]) \in files \cup Dirs}}

LstatFails(path) == fault = [kind |-> "lstat", path |-> path]
ReadDirFails(path) == fault = [kind |-> "readdir", path |-> path]
OpenFails(path) == fault = [kind |-> "open", path |-> path]
ReadFails(path) == fault = [kind |-> "read", path |-> path]

\* the bytes bufio.Scanner gets from a manifest before a read error
Truncated(data) == SubSeq(data, 1, Len(data) \div 2)

\* parseBuildFile that returns a nil error after a failed read
parseBuildFileIgnoringReadError(path) ==
    IF OpenFails(path) THEN [targets |-> <<>>, ok |-> FALSE]
    ELSE IF ReadFails(path)
         THEN [targets |-> <<parseText(Truncated(content[path]))>>,
               ok |-> TRUE]
    ELSE [targets |-> <<parseText(content[path])>>, ok |-> TRUE]

\* parseBuildFile(path): the targets (none when nil) and whether err is nil
parseBuildFile(path) ==
    IF OpenFails(path) THEN [targets |-> <<>>, ok |-> FALSE]
    ELSE IF ReadFails(path)
         THEN [targets |-> <<parseText(Truncated(content[path]))>>,
               ok |-> FALSE]
    ELSE [targets |-> <<parseText(content[path])>>, ok |-> TRUE]

-----------------------------------------------------------------------------
(* Scanner.Scan *)

LangGo == "go"
LangPython == "python"
LangRust == "rust"

skipDirs ==
    {".git", "bazel-bin", "bazel-out", "bazel-testlogs", "node_modules",
     ".cache", "vendor", "__pycache__", "target", ".venv", "venv"}

\* SkipsDir without the test for the build tool's output prefix
SkipsDirWithoutPrefix(base) == HasPrefix(base, ".") \/ base \in skipDirs

\* the test of the walk callback that makes it return filepath.SkipDir
SkipsDir(base) ==
    HasPrefix(base, ".") \/ base \in skipDirs \/ HasPrefix(base, "bazel-")

\* &Package{Path: dir, RelPath: relDir, Language: lang}
NewPackage(dir, relDir, lang) ==
    [Path |-> dir, RelPath |-> relDir, Language |-> lang,
     HasBuildFile |-> FALSE, HasTestFiles |-> FALSE,
     SourceFileCount |-> 0, TestFileCount |-> 0, TestTargetCount |-> 0,
     LibraryTargets |-> 0, BinaryTargets |-> 0]

\* &dirPackages{path: dir, relPath: relDir}; a nil pointer is <<>>
NewDirPackages(dir, relDir) ==
    [path |-> dir, relPath |-> relDir, hasBuild |-> FALSE, targets |-> <<>>,
     goPkg |-> <<>>, pythonPkg |-> <<>>, rustPkg |-> <<>>]

\* result := &ScanResult{...}
NewScanResult ==
    [RepoPath |-> repoPath,
     GoPackages |-> <<>>, PythonPackages |-> <<>>, RustPackages |-> <<>>,
     TotalBUILDs |-> 0,
     TotalGoFiles |-> 0, TotalGoTests |-> 0, TotalGoTestRules |-> 0,
     TotalPythonFiles |-> 0, TotalPythonTests |-> 0, TotalPyTestRules |-> 0,
     TotalRustFiles |-> 0, TotalRustTests |-> 0, TotalRustTestRules |-> 0]

\* the Python test file patterns without the prefix pattern test_*
IsPythonTestBySuffix(filename) ==
    \/ HasSuffix(filename, "_test.py")
    \/ HasSuffix(filename, "_tests.py")

\* the Python test file patterns: *_test.py, test_*.py, *_tests.py
IsPythonTest(filename) ==
    \/ HasSuffix(filename, "_test.py")
    \/ HasPrefix(filename, "test_")
    \/ HasSuffix(filename, "_tests.py")

\* get or create the package of one language
GetPkg(p, dir, relDir, lang) ==
    IF p = <<>> THEN NewPackage(dir, relDir, lang) ELSE p[1]

\* the package after one more test file / one more source file
AddTestFile(pkg) ==
    [pkg EXCEPT !.HasTestFiles = TRUE, !.TestFileCount = @ + 1]

AddSourceFile(pkg) == [pkg EXCEPT !.SourceFileCount = @ + 1]

\* MarkBuildFile with the presence flag coupled to the success of the parse
MarkBuildFileIfParsed(dp, parsed) ==
    [dp EXCEPT !.hasBuild = IF parsed.ok THEN TRUE ELSE @,
               !.targets = IF parsed.ok THEN parsed.targets ELSE @]

\* MarkBuildFile that takes what parseBuildFile returned also after an error
MarkBuildFileClearing(dp, parsed) ==
    [dp EXCEPT !.hasBuild = TRUE, !.targets = parsed.targets]

\* MarkBuildFile that adds the counts of a manifest to the counts the
\* directory entry already has
MarkBuildFileAdding(dp, parsed) ==
    [dp EXCEPT !.hasBuild = TRUE,
               !.targets =
                   IF ~parsed.ok THEN @
                   ELSE IF @ = <<>> THEN parsed.targets
                   ELSE <<[k \in DOMAIN @[1] |->
                              @[1][k] + parsed.targets[1][k]]>>]

\* the directory entry after a manifest was found and parsed
MarkBuildFile(dp, parsed) ==
    [dp EXCEPT !.hasBuild = TRUE,
               !.targets = IF parsed.ok THEN parsed.targets ELSE @]

\* the callback on a regular file: the directory entry after the file
FileDirPackages(path, dm) ==
    LET dir      == Dir(path)
        relDir   == Rel(repoPath, dir)
        filename == Base(path)
        dp0 == IF dir \in DOMAIN dm THEN dm[dir]
               ELSE NewDirPackages(dir, relDir)
        dp1 == IF IsManifestName(filename)
               THEN MarkBuildFile(dp0, parseBuildFile(path))
               ELSE dp0
        go  == GetPkg(dp1.goPkg, dir, relDir, LangGo)
        dp2 == IF HasSuffix(filename, ".go")
               THEN [dp1 EXCEPT !.goPkg =
                        IF HasSuffix(filename, "_test.go")
                        THEN <<AddTestFile(go)>> ELSE <<AddSourceFile(go)>>]
               ELSE dp1
        py  == GetPkg(dp2.pythonPkg, dir, relDir, LangPython)
        dp3 == IF HasSuffix(filename, ".py")
               THEN [dp2 EXCEPT !.pythonPkg =
                        IF IsPythonTest(filename)
                        THEN <<AddTestFile(py)>> ELSE <<AddSourceFile(py)>>]
               ELSE dp2
        rs  == GetPkg(dp3.rustPkg, dir, relDir, LangRust)
    IN  IF HasSuffix(filename, ".rs")
        THEN [dp3 EXCEPT !.rustPkg = <<AddSourceFile(rs)>>]
        ELSE dp3

\* FileTotals that counts a manifest only when it parsed without error
FileTotalsParsedBuilds(path, res) ==
    LET filename == Base(path)
        isGo     == HasSuffix(filename, ".go")
        isGoTest == HasSuffix(filename, "_test.go")
        isPy     == HasSuffix(filename, ".py")
        isPyTest == IsPythonTest(filename)
        one(b)   == IF b THEN 1 ELSE 0
    IN  [res EXCEPT
            !.TotalBUILDs = @ + one(IsManifestName(filename)
                                      /\ parseBuildFile(path).ok),
            !.TotalGoTests = @ + one(isGo /\ isGoTest),
            !.TotalGoFiles = @ + one(isGo /\ ~isGoTest),
            !.TotalPythonTests = @ + one(isPy /\ isPyTest),
            !.TotalPythonFiles = @ + one(isPy /\ ~isPyTest),
            !.TotalRustFiles = @ + one(HasSuffix(filename, ".rs"))]

\* FileTotals that counts a Go test file among the Go source files as well
FileTotalsTestsAsSources(path, res) ==
    LET filename == Base(path)
        isGo     == HasSuffix(filename, ".go")
        isGoTest == HasSuffix(filename, "_test.go")
        isPy     == HasSuffix(filename, ".py")
        isPyTest == IsPythonTest(filename)
        one(b)   == IF b THEN 1 ELSE 0
    IN  [res EXCEPT
            !.TotalBUILDs = @ + one(IsManifestName(filename)),
            !.TotalGoTests = @ + one(isGo /\ isGoTest),
            !.TotalGoFiles = @ + one(isGo),
            !.TotalPythonTests = @ + one(isPy /\ isPyTest),
            !.TotalPythonFiles = @ + one(isPy /\ ~isPyTest),
            !.TotalRustFiles = @ + one(HasSuffix(filename, ".rs"))]

\* the callback on a regular file: the totals after the file
FileTotals(path, res) ==
    LET filename == Base(path)
        isGo     == HasSuffix(filename, ".go")
        isGoTest == HasSuffix(filename, "_test.go")
        isPy     == HasSuffix(filename, ".py")
        isPyTest == IsPythonTest(filename)
        one(b)   == IF b THEN 1 ELSE 0
    IN  [res EXCEPT
            !.TotalBUILDs = @ + one(IsManifestName(filename)),
            !.TotalGoTests = @ + one(isGo /\ isGoTest),
            !.TotalGoFiles = @ + one(isGo /\ ~isGoTest),
            !.TotalPythonTests = @ + one(isPy /\ isPyTest),
            !.TotalPythonFiles = @ + one(isPy /\ ~isPyTest),
            !.TotalRustFiles = @ + one(HasSuffix(filename, ".rs"))]

\* dirMap with the entry of dir set to dp
PutDir(dm, dir, dp) ==
    [d \in DOMAIN dm \cup {dir} |-> IF d = dir THEN dp ELSE dm[d]]

\* the post-walk loop body for the Go package of a directory entry
AssignGo(dp, res) ==
    IF dp.goPkg = <<>> THEN res
    ELSE LET p0 == [dp.goPkg[1] EXCEPT !.HasBuildFile = dp.hasBuild]
             p1 == IF dp.targets = <<>> THEN p0
                   ELSE [p0 EXCEPT !.TestTargetCount = dp.targets[1].goTests,
                                   !.LibraryTargets = dp.targets[1].goLibs,
                                   !.BinaryTargets = dp.targets[1].goBins]
         IN  [res EXCEPT
                !.TotalGoTestRules =
                    IF dp.targets = <<>> THEN @ ELSE @ + dp.targets[1].goTests,
                !.GoPackages = Append(@, p1)]

\* AssignPython that appends the package to the Go list
AssignPythonToGoList(dp, res) ==
    IF dp.pythonPkg = <<>> THEN res
    ELSE LET p0 == [dp.pythonPkg[1] EXCEPT !.HasBuildFile = dp.hasBuild]
             p1 == IF dp.targets = <<>> THEN p0
                   ELSE [p0 EXCEPT !.TestTargetCount = dp.targets[1].pyTests,
                                   !.LibraryTargets = dp.targets[1].pyLibs,
                                   !.BinaryTargets = dp.targets[1].pyBins]
         IN  [res EXCEPT
                !.TotalPyTestRules =
                    IF dp.targets = <<>> THEN @ ELSE @ + dp.targets[1].pyTests,
                !.GoPackages = Append(@, p1)]

\* the post-walk loop body for the Python package of a directory entry
AssignPython(dp, res) ==
    IF dp.pythonPkg = <<>> THEN res
    ELSE LET p0 == [dp.pythonPkg[1] EXCEPT !.HasBuildFile = dp.hasBuild]
             p1 == IF dp.targets = <<>> THEN p0
                   ELSE [p0 EXCEPT !.TestTargetCount = dp.targets[1].pyTests,
                                   !.LibraryTargets = dp.targets[1].pyLibs,
                                   !.BinaryTargets = dp.targets[1].pyBins]
         IN  [res EXCEPT
                !.TotalPyTestRules =
                    IF dp.targets = <<>> THEN @ ELSE @ + dp.targets[1].pyTests,
                !.PythonPackages = Append(@, p1)]

\* AssignRust without the rule that turns rust_test targets into test files
AssignRustNoTestFiles(dp, res) ==
    IF dp.rustPkg = <<>> THEN res
    ELSE LET p0 == [dp.rustPkg[1] EXCEPT !.HasBuildFile = dp.hasBuild]
             p1 == IF dp.targets = <<>> THEN p0
                   ELSE [p0 EXCEPT !.TestTargetCount = dp.targets[1].rustTests,
                                   !.LibraryTargets = dp.targets[1].rustLibs,
                                   !.BinaryTargets = dp.targets[1].rustBins]
         IN  [res EXCEPT
                !.TotalRustTestRules =
                    IF dp.targets = <<>> THEN @
                    ELSE @ + dp.targets[1].rustTests,
                !.RustPackages = Append(@, p1)]

\* AssignRust that marks a Rust package as having tests whenever its
\* directory has a parsed manifest
AssignRustTestsWithManifest(dp, res) ==
    IF dp.rustPkg = <<>> THEN res
    ELSE LET p0 == [dp.rustPkg[1] EXCEPT !.HasBuildFile = dp.hasBuild]
             p1 == IF dp.targets = <<>> THEN p0
                   ELSE [p0 EXCEPT !.TestTargetCount = dp.targets[1].rustTests,
                                   !.LibraryTargets = dp.targets[1].rustLibs,
                                   !.BinaryTargets = dp.targets[1].rustBins,
                                   !.HasTestFiles = TRUE,
                                   !.TestFileCount = dp.targets[1].rustTests]
         IN  [res EXCEPT
                !.TotalRustTestRules =
                    IF dp.targets = <<>> THEN @
                    ELSE @ + dp.targets[1].rustTests,
                !.TotalRustTests =
                    IF dp.targets = <<>> THEN @
                    ELSE @ + dp.targets[1].rustTests,
                !.RustPackages = Append(@, p1)]

\* the post-walk loop body for the Rust package of a directory entry
AssignRust(dp, res) ==
    IF dp.rustPkg = <<>> THEN res
    ELSE LET p0 == [dp.rustPkg[1] EXCEPT !.HasBuildFile = dp.hasBuild]
             p1 == IF dp.targets = <<>> THEN p0
                   ELSE [p0 EXCEPT !.TestTargetCount = dp.targets[1].rustTests,
                                   !.LibraryTargets = dp.targets[1].rustLibs,
                                   !.BinaryTargets = dp.targets[1].rustBins]
             hasT == dp.targets # <<>> /\ dp.targets[1].rustTests > 0
             p2 == IF hasT
                   THEN [p1 EXCEPT !.HasTestFiles = TRUE,
                                   !.TestFileCount = dp.targets[1].rustTests]
                   ELSE p1
         IN  [res EXCEPT
                !.TotalRustTestRules =
                    IF dp.targets = <<>> THEN @
                    ELSE @ + dp.targets[1].rustTests,
                !.TotalRustTests =
                    IF hasT THEN @ + dp.targets[1].rustTests ELSE @,
                !.RustPackages = Append(@, p2)]

\* one iteration of `for _, dp := range dirMap`
AssignDirPackages(dp, res) == AssignRust(dp, AssignPython(dp, AssignGo(dp, res)))

\* a package list with pkg inserted before the first package that is not
\* before it in RelPath order
RECURSIVE InsertByRelPath(_, _)
InsertByRelPath(pkg, sorted) ==
    IF sorted = <<>> THEN <<pkg>>
    ELSE IF StrLess(pkg.RelPath, Head(sorted).RelPath)
         THEN <<pkg>> \o sorted
         ELSE <<Head(sorted)>> \o InsertByRelPath(pkg, Tail(sorted))

\* a package list left in the order of the loop over dirMap
Unsorted(packages) == packages

\* sort.Slice(packages, RelPath <): no two packages of a list share a RelPath,
\* so the order does not depend on the stability of the sort
RECURSIVE SortByRelPath(_)
SortByRelPath(packages) ==
    IF packages = <<>> THEN <<>>
    ELSE InsertByRelPath(packages[Len(packages)],
                         SortByRelPath(SubSeq(packages, 1, Len(packages) - 1)))

NoReport == <<>>

\* ScanStart with the dirMap kept from one call of Scan to the next
ScanStartStaleMap ==
    /\ pc \in {"idle", "calculated"}
    /\ scans < MaxScans
    /\ scans' = scans + 1
    /\ prev' = IF pc = "calculated"
               THEN <<[result |-> result, report |-> report[1],
                       order |-> order]>>
               ELSE prev
    /\ result' = NewScanResult
    /\ dirMap' = dirMap
    /\ pending' = {}
    /\ scanErr' = FALSE
    /\ report' = NoReport
    /\ todo' = <<repoPath>>
    /\ order' = <<>>
    /\ pc' = "walk"
    /\ UNCHANGED <<repoPath, files, content, fault, ptext, pcounts,
                   cli>>

\* Scan is called: a fresh result, a fresh dirMap, and filepath.Walk starts at
\* the root.  A second call finds the result of the first scan and its report
\* in prev.
ScanStart ==
    /\ pc \in {"idle", "calculated"}
    /\ scans < MaxScans
    /\ scans' = scans + 1
    /\ prev' = IF pc = "calculated"
               THEN <<[result |-> result, report |-> report[1],
                       order |-> order]>>
               ELSE prev
    /\ result' = NewScanResult
    /\ dirMap' = <<>>
    /\ pending' = {}
    /\ scanErr' = FALSE
    /\ report' = NoReport
    /\ todo' = <<repoPath>>
    /\ order' = <<>>
    /\ pc' = "walk"
    /\ UNCHANGED <<repoPath, files, content, fault, ptext, pcounts,
                   cli>>

\* VisitError with a callback that returns the error: Walk stops and returns it
VisitErrorAborts ==
    /\ pc = "walk" /\ todo # <<>>
    /\ LET path == Head(todo) IN
         \/ LstatFails(path)
         \/ IsDir(path) /\ ReadDirFails(path)
    /\ todo' = <<>>
    /\ scanErr' = TRUE
    /\ order' = Append(order, Head(todo))
    /\ UNCHANGED <<repoPath, files, content, fault, pc, dirMap, pending,
                   result, report, prev, scans, ptext, pcounts,
                   cli>>

\* the callback is called with err != nil (lstat of the entry failed, or the
\* entry is a directory that cannot be listed) and returns nil: Walk goes on
\* with the next entry and does not descend
VisitError ==
    /\ pc = "walk" /\ todo # <<>>
    /\ LET path == Head(todo) IN
         \/ LstatFails(path)
         \/ IsDir(path) /\ ReadDirFails(path)
    /\ todo' = Tail(todo)
    /\ order' = Append(order, Head(todo))
    /\ UNCHANGED <<repoPath, files, content, fault, pc, dirMap, pending,
                   result, scanErr, report, prev, scans, ptext, pcounts,
                   cli>>

\* VisitDir that applies the exclusion to the directories below the root only
VisitDirBelowRoot ==
    /\ pc = "walk" /\ todo # <<>>
    /\ LET path == Head(todo) IN
         /\ ~LstatFails(path) /\ IsDir(path) /\ ~ReadDirFails(path)
         /\ todo' = IF path # repoPath /\ SkipsDir(Base(path)) THEN Tail(todo)
                    ELSE SortStrings(Children(path)) \o Tail(todo)
    /\ order' = Append(order, Head(todo))
    /\ UNCHANGED <<repoPath, files, content, fault, pc, dirMap, pending,
                   result, scanErr, report, prev, scans, ptext, pcounts,
                   cli>>

\* the callback is called on a directory: SkipDir for an excluded one, else
\* nil and Walk reports the entries of the directory next, sorted by name
VisitDir ==
    /\ pc = "walk" /\ todo # <<>>
    /\ LET path == Head(todo) IN
         /\ ~LstatFails(path) /\ IsDir(path) /\ ~ReadDirFails(path)
         /\ todo' = IF SkipsDir(Base(path)) THEN Tail(todo)
                    ELSE SortStrings(Children(path)) \o Tail(todo)
    /\ order' = Append(order, Head(todo))
    /\ UNCHANGED <<repoPath, files, content, fault, pc, dirMap, pending,
                   result, scanErr, report, prev, scans, ptext, pcounts,
                   cli>>

\* the orders in which the entries of a directory can be listed
Orderings(S) ==
    {o \in [1..Cardinality(S) -> S] :
        \A i \in 1..Cardinality(S) : \A j \in 1..Cardinality(S) :
            o[i] = o[j] => i = j}

\* VisitDir of a walk that reports the entries of a directory in any order
VisitDirAnyOrder ==
    /\ pc = "walk" /\ todo # <<>>
    /\ LET path == Head(todo) IN
         /\ ~LstatFails(path) /\ IsDir(path) /\ ~ReadDirFails(path)
         /\ IF SkipsDir(Base(path)) THEN todo' = Tail(todo)
            ELSE \E o \in Orderings(Children(path)) : todo' = o \o Tail(todo)
    /\ order' = Append(order, Head(todo))
    /\ UNCHANGED <<repoPath, files, content, fault, pc, dirMap, pending,
                   result, scanErr, report, prev, scans, ptext, pcounts,
                   cli>>

\* the callback is called on a file
VisitFile ==
    /\ pc = "walk" /\ todo # <<>>
    /\ LET path == Head(todo) IN
         /\ ~LstatFails(path) /\ ~IsDir(path)
         /\ dirMap' = PutDir(dirMap, Dir(path), FileDirPackages(path, dirMap))
         /\ result' = FileTotals(path, result)
    /\ todo' = Tail(todo)
    /\ order' = Append(order, Head(todo))
    /\ UNCHANGED <<repoPath, files, content, fault, pc, pending,
                   scanErr, report, prev, scans, ptext, pcounts,
                   cli>>

\* filepath.Walk returns.  The callback returns nil or SkipDir only, so Walk
\* returns nil and Scan goes on to the loop over dirMap.
WalkReturn ==
    /\ pc = "walk" /\ todo = <<>>
    /\ pending' = DOMAIN dirMap
    /\ pc' = "assign"
    /\ UNCHANGED <<repoPath, files, content, fault, todo, dirMap, result,
                   scanErr, report, prev, scans, ptext, pcounts,
                   cli, order>>

\* one iteration of the loop over dirMap; Go leaves the order of a map range
\* unspecified
AssignStep ==
    /\ pc = "assign"
    /\ \E dir \in pending :
         /\ result' = AssignDirPackages(dirMap[dir], result)
         /\ pending' = pending \ {dir}
    /\ UNCHANGED <<repoPath, files, content, fault, pc, todo, dirMap,
                   scanErr, report, prev, scans, ptext, pcounts,
                   cli, order>>

\* the three sorts and the return of Scan
ScanReturn ==
    /\ pc = "assign" /\ pending = {}
    /\ result' = [result EXCEPT
                    !.GoPackages = SortByRelPath(@),
                    !.PythonPackages = SortByRelPath(@),
                    !.RustPackages = SortByRelPath(@)]
    /\ pc' = "scanned"
    /\ UNCHANGED <<repoPath, files, content, fault, todo, dirMap, pending,
                   scanErr, report, prev, scans, ptext, pcounts,
                   cli, order>>

-----------------------------------------------------------------------------
(* Calculator.Calculate *)

\* float64(count) / float64(total) * 100 as the rational 100*count / total
Pct(count, total) == <<100 * count, total>>

\* the zero value of a float64 field
ZeroPct == <<0, 1>>

\* the value of a percentage is the whole number v
PctIs(pct, v) == pct[1] = v * pct[2]

RECURSIVE SumOver(_, _)
SumOver(packages, field) ==
    IF packages = <<>> THEN 0
    ELSE Head(packages)[field] + SumOver(Tail(packages), field)

\* the number of packages of a list with the flag set
CountTrue(packages, field) ==
    Cardinality({i \in 1..Len(packages) : packages[i][field]})

HasBazelizedTests(pkg) == pkg.HasTestFiles /\ pkg.TestTargetCount > 0

\* bazelizedTestPkgs: the packages with test files and a test target
CountBazelizedTests(packages) ==
    Cardinality({i \in 1..Len(packages) : HasBazelizedTests(packages[i])})

\* the bazelized-tests percentage taken over all packages of the list
BazelizedTestsPctOverAll(packages) ==
    IF Len(packages) > 0
    THEN Pct(CountBazelizedTests(packages), Len(packages))
    ELSE ZeroPct

\* the bazelized-tests percentage guarded by the number of packages
BazelizedTestsPctWrongGuard(packages) ==
    IF Len(packages) > 0
    THEN Pct(CountBazelizedTests(packages),
             CountTrue(packages, "HasTestFiles"))
    ELSE ZeroPct

\* summary.BazelizedTestsPct: packages with tests that also have test targets
\* over the packages with tests
BazelizedTestsPctOf(packages) ==
    IF CountTrue(packages, "HasTestFiles") > 0
    THEN Pct(CountBazelizedTests(packages),
             CountTrue(packages, "HasTestFiles"))
    ELSE ZeroPct

calculateLanguageSummary(lang, packages) ==
    LET total     == Len(packages)
        withBuild == CountTrue(packages, "HasBuildFile")
        withTests == CountTrue(packages, "HasTestFiles")
    IN  [Language |-> lang,
         BazelizationPct |->
            IF total > 0 THEN Pct(withBuild, total) ELSE ZeroPct,
         TestCoveragePct |->
            IF total > 0 THEN Pct(withTests, total) ELSE ZeroPct,
         BazelizedTestsPct |-> BazelizedTestsPctOf(packages),
         TotalPackages |-> total,
         TotalSourceFiles |-> SumOver(packages, "SourceFileCount"),
         TotalTestFiles |-> SumOver(packages, "TestFileCount"),
         PackagesWithBuild |-> withBuild,
         PackagesWithTests |-> withTests,
         TotalTestTargets |-> SumOver(packages, "TestTargetCount")]

\* filepath.Clean leaves the RelPath of a package as it is (filepath.Rel
\* returns clean paths); the first of the parts split at the separator
getTopLevelDir(path) == Segments(path)[1]

\* the key of a package in the map of calculateDirectoryBreakdown
TopDirName(pkg) ==
    IF getTopLevelDir(pkg.RelPath) = "" \/ getTopLevelDir(pkg.RelPath) = "."
    THEN "(root)" ELSE getTopLevelDir(pkg.RelPath)

\* the packages of a list whose key is name
RECURSIVE InTopDir(_, _)
InTopDir(packages, name) ==
    IF packages = <<>> THEN <<>>
    ELSE (IF TopDirName(Head(packages)) = name THEN <<Head(packages)>>
          ELSE <<>>) \o InTopDir(Tail(packages), name)

\* DirectoryMetricsOf that does not count the package that creates the entry
DirectoryMetricsMissingFirst(packages, name) ==
    LET group     == InTopDir(packages, name)
        total     == Len(group) - 1
        bazelized == CountTrue(group, "HasBuildFile")
        withTests == CountTrue(group, "HasTestFiles")
    IN  [Name |-> name,
         TotalPackages |-> total,
         BazelizedPackages |-> bazelized,
         PackagesWithTests |-> withTests,
         BazelizationPct |->
            IF total > 0 THEN Pct(bazelized, total) ELSE ZeroPct,
         TestCoveragePct |->
            IF total > 0 THEN Pct(withTests, total) ELSE ZeroPct]

\* the DirectoryMetrics of one key after the loop over the packages, with its
\* percentages
DirectoryMetricsOf(packages, name) ==
    LET group     == InTopDir(packages, name)
        total     == Len(group)
        bazelized == CountTrue(group, "HasBuildFile")
        withTests == CountTrue(group, "HasTestFiles")
    IN  [Name |-> name,
         TotalPackages |-> total,
         BazelizedPackages |-> bazelized,
         PackagesWithTests |-> withTests,
         BazelizationPct |->
            IF total > 0 THEN Pct(bazelized, total) ELSE ZeroPct,
         TestCoveragePct |->
            IF total > 0 THEN Pct(withTests, total) ELSE ZeroPct]

\* the values of the map of calculateDirectoryBreakdown
DirectoryGroups(packages) ==
    {DirectoryMetricsOf(packages, TopDirName(packages[i])) :
        i \in 1..Len(packages)}

\* the sequences that hold every element of a set once
RECURSIVE SeqsOf(_)
SeqsOf(S) ==
    IF S = {} THEN {<<>>}
    ELSE UNION {{<<x>> \o t : t \in SeqsOf(S \ {x})} : x \in S}

\* the slices calculateDirectoryBreakdown can return: the values of the map
\* are appended in the unspecified order of a map range, and sort.Slice orders
\* them by TotalPackages descending without a rule for equal counts
calculateDirectoryBreakdown(packages) ==
    {r \in SeqsOf(DirectoryGroups(packages)) :
        \A i \in 1..Len(r) : \A j \in i..Len(r) :
            r[i].TotalPackages >= r[j].TotalPackages}

\* &PackageInfo{...} of a scanned package
PackageInfo(pkg, lang) ==
    [Path |-> pkg.RelPath, Language |-> lang,
     HasBuildFile |-> pkg.HasBuildFile, HasTestFiles |-> pkg.HasTestFiles,
     TestFileCount |-> pkg.TestFileCount,
     TestTargetCount |-> pkg.TestTargetCount,
     SourceFileCount |-> pkg.SourceFileCount]

PackageInfos(packages, lang) ==
    [i \in 1..Len(packages) |-> PackageInfo(packages[i], lang)]

\* the zero value of Summary
ZeroSummary ==
    [BazelizationPct |-> ZeroPct, TestCoveragePct |-> ZeroPct,
     BazelizedTestsPct |-> ZeroPct, TotalPackages |-> 0, TotalBuildFiles |-> 0,
     TotalTestFiles |-> 0, TotalGoFiles |-> 0, PackagesWithBuild |-> 0,
     PackagesWithTests |-> 0, TotalGoTestTargets |-> 0]

\* LegacySummary with the file totals of the Go summary exchanged
LegacySummarySwapped(goSummary, res) ==
    [BazelizationPct |-> goSummary.BazelizationPct,
     TestCoveragePct |-> goSummary.TestCoveragePct,
     BazelizedTestsPct |-> goSummary.BazelizedTestsPct,
     TotalPackages |-> goSummary.TotalPackages,
     TotalBuildFiles |-> res.TotalBUILDs,
     TotalTestFiles |-> goSummary.TotalSourceFiles,
     TotalGoFiles |-> goSummary.TotalTestFiles,
     PackagesWithBuild |-> goSummary.PackagesWithBuild,
     PackagesWithTests |-> goSummary.PackagesWithTests,
     TotalGoTestTargets |-> goSummary.TotalTestTargets]

\* the backwards compatible summary written for a non-empty Go list
LegacySummary(goSummary, res) ==
    [BazelizationPct |-> goSummary.BazelizationPct,
     TestCoveragePct |-> goSummary.TestCoveragePct,
     BazelizedTestsPct |-> goSummary.BazelizedTestsPct,
     TotalPackages |-> goSummary.TotalPackages,
     TotalBuildFiles |-> res.TotalBUILDs,
     TotalTestFiles |-> goSummary.TotalTestFiles,
     TotalGoFiles |-> goSummary.TotalSourceFiles,
     PackagesWithBuild |-> goSummary.PackagesWithBuild,
     PackagesWithTests |-> goSummary.PackagesWithTests,
     TotalGoTestTargets |-> goSummary.TotalTestTargets]

\* the scanned list of a language
PackagesOf(res, lang) ==
    IF lang = LangGo THEN res.GoPackages
    ELSE IF lang = LangPython THEN res.PythonPackages
    ELSE res.RustPackages

\* LanguagesOf without the test for an empty list
LanguagesOfAll(res, langs) == langs

\* the languages with a non-empty list, in the order Calculate appends them
RECURSIVE LanguagesOf(_, _)
LanguagesOf(res, langs) ==
    IF langs = <<>> THEN <<>>
    ELSE (IF Len(PackagesOf(res, Head(langs))) > 0 THEN <<Head(langs)>>
          ELSE <<>>) \o LanguagesOf(res, Tail(langs))

\* the report of Calculate at time now with the directory breakdown in the
\* order breakdown; an absent slice or pointer is <<>>
ReportOf(res, now, breakdown) ==
    LET hasGo == Len(res.GoPackages) > 0
        languages == LanguagesOf(res, <<LangGo, LangPython, LangRust>>)
    IN  [Timestamp |-> now,
         RepoPath |-> res.RepoPath,
         Summary |->
            IF hasGo
            THEN LegacySummary(calculateLanguageSummary(LangGo, res.GoPackages),
                               res)
            ELSE ZeroSummary,
         DirectoryBreakdown |-> breakdown,
         Packages |->
            IF hasGo THEN PackageInfos(res.GoPackages, LangGo) ELSE <<>>,
         SpeedComparison |-> <<>>,
         Languages |-> languages,
         LanguageSummaries |->
            [l \in {languages[i] : i \in 1..Len(languages)} |->
                calculateLanguageSummary(l, PackagesOf(res, l))],
         GoPackages |-> PackageInfos(res.GoPackages, LangGo),
         PythonPackages |-> PackageInfos(res.PythonPackages, LangPython),
         RustPackages |-> PackageInfos(res.RustPackages, LangRust)]

\* NewCalculator(scanResult).Calculate(); the clock of the timestamp is the
\* number of the run
Calculate ==
    /\ pc = "scanned"
    /\ \E breakdown \in calculateDirectoryBreakdown(result.GoPackages) :
         report' = <<ReportOf(result, scans, breakdown)>>
    /\ pc' = "calculated"
    /\ UNCHANGED <<repoPath, files, content, fault, todo, dirMap, pending,
                   result, scanErr, prev, scans, ptext, pcounts,
                   cli, order>>

-----------------------------------------------------------------------------
(* benchmark.Runner and the command line program *)

\* maxTests of NewRunner when the given one is not positive
DefaultMaxTests == 5

\* the largest TestFileCount of a package that selectCandidates accepts
MaxTestFiles == 20

\* the state of the program outside Scan and Calculate before main or
\* Runner.Run has started; an absent value is <<>>
NoCli ==
    [runBenchmarks |-> FALSE, maxBenchmarks |-> 0, rootMissing |-> FALSE,
     marshalFails |-> FALSE, writeFails |-> FALSE, caller |-> "none",
     candidates |-> <<>>, benchmarked |-> <<>>, speed |-> <<>>,
     runErr |-> FALSE, warnings |-> 0, exit |-> <<>>, file |-> <<>>]

\* NewRunner: the maxTests of the Runner
NewRunner(maxTests) == IF maxTests <= 0 THEN DefaultMaxTests ELSE maxTests

\* the test of selectCandidates
IsCandidate(pkg) ==
    /\ pkg.HasTestFiles
    /\ pkg.TestTargetCount > 0
    /\ pkg.TestFileCount > 0
    /\ pkg.TestFileCount <= MaxTestFiles

\* minIdx of the selection sort: the first index from i on with the least
\* TestFileCount
MinIdx(c, i) ==
    CHOOSE m \in i..Len(c) :
        /\ \A j \in i..Len(c) : c[m].TestFileCount <= c[j].TestFileCount
        /\ \A j \in i..(m - 1) : c[j].TestFileCount > c[m].TestFileCount

\* candidates[i], candidates[minIdx] = candidates[minIdx], candidates[i]
Swap(c, i, m) == [c EXCEPT ![i] = c[m], ![m] = c[i]]

\* the selection sort of selectCandidates from position i on: it stops
\* after maxTests positions or before the last one
RECURSIVE SelectionSort(_, _, _)
SelectionSort(c, i, maxTests) ==
    IF i > Len(c) - 1 \/ i > maxTests THEN c
    ELSE SelectionSort(Swap(c, i, MinIdx(c, i)), i + 1, maxTests)

\* selectCandidates without the sort
selectCandidatesUnsorted(goPackages, maxTests) ==
    SelectSeq(goPackages, IsCandidate)

\* Runner.selectCandidates
selectCandidates(goPackages, maxTests) ==
    SelectionSort(SelectSeq(goPackages, IsCandidate), 1, maxTests)

\* the candidates Run goes through: candidates[:maxTests] when there are more
LimitTo(candidates, maxTests) ==
    IF Len(candidates) > maxTests THEN SubSeq(candidates, 1, maxTests)
    ELSE candidates

\* the outcomes of a go test command: elapsed milliseconds and whether
\* cmd.Run returned an error (the command could not be started, a test
\* failed, the timeout passed)
GoTestRuns == {[ms |-> 10, failed |-> FALSE], [ms |-> 25, failed |-> TRUE]}

\* runGoTest: the elapsed time and a nil error whatever cmd.Run returned
runGoTest(run) == [ms |-> run.ms, err |-> FALSE]

\* runBazelTest: the elapsed time and the error of cmd.Run
runBazelTest(run) == [ms |-> run.ms, err |-> run.failed]

\* benchmarkPackage: the benchmark (none when nil), whether its error is
\* not nil, and the number of warnings it printed
benchmarkPackage(pkg, go, cold, warm) ==
    LET goTest == runGoTest(go)
        bazelCold == runBazelTest(cold)
        bazelWarm == runBazelTest(warm)
    IN  IF goTest.err THEN [benchmark |-> <<>>, err |-> TRUE, warnings |-> 0]
        ELSE [benchmark |-> <<[Path |-> pkg.RelPath, GoTestMs |-> goTest.ms,
                               BazelTestColdMs |-> bazelCold.ms,
                               BazelTestWarmMs |-> bazelWarm.ms]>>,
              err |-> FALSE,
              warnings |-> (IF bazelCold.err THEN 1 ELSE 0)
                             + (IF bazelWarm.err THEN 1 ELSE 0)]

\* the outcomes of a bazel test command: elapsed milliseconds and whether
\* cmd.Run returned an error
BazelRuns == {[ms |-> 40, failed |-> FALSE], [ms |-> 15, failed |-> TRUE]}

\* &metrics.SpeedReport{Packages: make([]metrics.PackageBenchmark, 0)}
NewSpeedReport == [Packages |-> <<>>]

\* report.SetSpeedComparison(speed) that also clears the package array
SetSpeedComparisonAndClear(rep, speed) ==
    [rep EXCEPT !.SpeedComparison = <<speed>>, !.Packages = <<>>]

\* report.SetSpeedComparison(speed)
SetSpeedComparison(rep, speed) == [rep EXCEPT !.SpeedComparison = <<speed>>]

\* the flags of the command line
MaxBenchmarksU == {-1, 0, 1, 2}

\* main up to the call of Scan: the root is looked at with os.Stat and the
\* program exits with status 1 when it does not exist, else Scan starts
MainStart ==
    /\ pc = "main"
    /\ IF cli.rootMissing
       THEN /\ cli' = [cli EXCEPT !.exit = <<1>>]
            /\ pc' = "exit"
            /\ UNCHANGED <<todo, scans, result, dirMap, pending, scanErr,
                           report, order>>
       ELSE /\ scans' = scans + 1
            /\ result' = NewScanResult
            /\ dirMap' = <<>>
            /\ pending' = {}
            /\ scanErr' = FALSE
            /\ report' = NoReport
            /\ todo' = <<repoPath>>
            /\ order' = <<>>
            /\ pc' = "walk"
            /\ UNCHANGED cli
    /\ UNCHANGED <<repoPath, files, content, fault, prev, ptext, pcounts>>

\* main after Scan: a scan error ends the program with status 1, else the
\* report is calculated
MainCalculate ==
    /\ cli.caller = "main"
    /\ IF scanErr
       THEN /\ pc = "scanned"
            /\ pc' = "exit"
            /\ cli' = [cli EXCEPT !.exit = <<1>>]
            /\ UNCHANGED <<repoPath, files, content, fault, todo, dirMap,
                           pending, result, scanErr, report, prev, scans,
                           ptext, pcounts, order>>
       ELSE Calculate

\* main after Scan and Calculate: the benchmarks are run when requested and
\* the scan found a Go package
MainBenchmark ==
    /\ pc = "calculated" /\ cli.caller = "main"
    /\ pc' = IF cli.runBenchmarks /\ Len(result.GoPackages) > 0
             THEN "runner" ELSE "output"
    /\ UNCHANGED <<repoPath, files, content, fault, todo, dirMap, pending,
                   result, scanErr, report, prev, scans, ptext, pcounts, cli,
                   order>>

\* NewRunner(repoPath, scanResult, maxBenchmarks).Run() up to its loop
RunStart ==
    /\ pc = "runner"
    /\ cli' = [cli EXCEPT
                 !.candidates =
                    LimitTo(selectCandidates(result.GoPackages,
                                             NewRunner(cli.maxBenchmarks)),
                            NewRunner(cli.maxBenchmarks)),
                 !.benchmarked = <<>>,
                 !.speed = <<NewSpeedReport>>]
    /\ pc' = "running"
    /\ UNCHANGED <<repoPath, files, content, fault, todo, dirMap, pending,
                   result, scanErr, report, prev, scans, ptext, pcounts,
                   order>>

\* one iteration of the loop of Run: benchmarkPackage times go test, cleans
\* the cache and times bazel test twice; runGoTest returns a nil error
\* whatever the command did, so benchmarkPackage returns a nil error, and a
\* failing bazel test gives a warning and is timed all the same
RunStep ==
    /\ pc = "running" /\ cli.candidates # <<>>
    /\ \E go \in GoTestRuns : \E cold \in BazelRuns : \E warm \in BazelRuns :
         LET pkg == Head(cli.candidates)
             res == benchmarkPackage(pkg, go, cold, warm)
         IN  cli' = [cli EXCEPT
                 !.candidates = Tail(@),
                 !.benchmarked = Append(@, pkg),
                 !.warnings = @ + res.warnings + (IF res.err THEN 1 ELSE 0),
                 !.speed =
                    IF res.err THEN @
                    ELSE <<[Packages |->
                              Append(cli.speed[1].Packages,
                                     res.benchmark[1])]>>]
    /\ UNCHANGED <<repoPath, files, content, fault, pc, todo, dirMap, pending,
                   result, scanErr, report, prev, scans, ptext, pcounts,
                   order>>

\* Run returns its report and a nil error; main attaches the report with
\* SetSpeedComparison
RunReturn ==
    /\ pc = "running" /\ cli.candidates = <<>>
    /\ cli' = [cli EXCEPT !.runErr = FALSE]
    /\ IF cli.caller = "main"
       THEN /\ report' = <<SetSpeedComparison(report[1], cli.speed[1])>>
            /\ pc' = "output"
       ELSE /\ pc' = "ran"
            /\ UNCHANGED report
    /\ UNCHANGED <<repoPath, files, content, fault, todo, dirMap, pending,
                   result, scanErr, prev, scans, ptext, pcounts,
                   order>>

\* main from "Writing metrics" on: the report is serialized and written; a
\* failure of either ends the program with status 1, and a failed write may
\* leave a file that is not the report
MainOutput ==
    /\ pc = "output"
    /\ \/ /\ cli.marshalFails
          /\ cli' = [cli EXCEPT !.exit = <<1>>]
       \/ /\ ~cli.marshalFails /\ cli.writeFails
          /\ \E left \in {<<>>, <<[truncated |-> TRUE]>>} :
               cli' = [cli EXCEPT !.exit = <<1>>, !.file = left]
       \/ /\ ~cli.marshalFails /\ ~cli.writeFails
          /\ cli' = [cli EXCEPT !.exit = <<0>>, !.file = <<report[1]>>]
    /\ pc' = "exit"
    /\ UNCHANGED <<repoPath, files, content, fault, todo, dirMap, pending,
                   result, scanErr, report, prev, scans, ptext, pcounts,
                   order>>

-----------------------------------------------------------------------------
(* The specification of a scan of a tree followed by the calculation *)

\* the trees of at most MaxFiles files of a universe
Trees(universe) ==
    {S \in SUBSET universe : Cardinality(S) <= MaxFiles}

\* a Scanner for the root of a tree drawn from a universe, before the first
\* call of Scan
InitOver(universe) ==
    /\ repoPath \in RepoPaths
    /\ files \in {{repoPath \o "/" \o f : f \in S} : S \in Trees(universe)}
    /\ content \in [{f \in files : IsManifestName(Base(f))} -> ManifestTexts]
    /\ fault \in Faults
    /\ pc = "idle"
    /\ todo = <<>>
    /\ dirMap = <<>>
    /\ pending = {}
    /\ result = NewScanResult
    /\ scanErr = FALSE
    /\ report = NoReport
    /\ prev = <<>>
    /\ scans = 0
    /\ ptext = ""
    /\ pcounts = <<>>
    /\ cli = NoCli
    /\ order = <<>>

Init == InitOver(FileU)

\* the files of the trees scanned with a failing entry
FaultFileU ==
    {"x.go", "a/x.go", "a/x_test.go", "a/BUILD", "a/c/x.go", "a/c/l.rs",
     "b/m.py"}

\* a Scanner for a tree in which the root or an entry below it may fail
InitFault ==
    /\ repoPath \in RepoPaths
    /\ files \in {{repoPath \o "/" \o f : f \in S} : S \in Trees(FaultFileU)}
    /\ content \in [{f \in files : IsManifestName(Base(f))} -> ManifestTexts]
    /\ fault \in EntryFaults
    /\ pc = "idle"
    /\ todo = <<>>
    /\ dirMap = <<>>
    /\ pending = {}
    /\ result = NewScanResult
    /\ scanErr = FALSE
    /\ report = NoReport
    /\ prev = <<>>
    /\ scans = 0
    /\ ptext = ""
    /\ pcounts = <<>>
    /\ cli = NoCli
    /\ order = <<>>

InitExcl == InitOver(ExclFileU)

Next ==
    \/ ScanStart
    \/ VisitError
    \/ VisitDir
    \/ VisitFile
    \/ WalkReturn
    \/ AssignStep
    \/ ScanReturn
    \/ Calculate

Spec == Init /\ [][Next]_vars

\* the scan of the trees with excluded directories
SpecExcl == InitExcl /\ [][Next]_vars

\* the files of the trees scanned for their Rust packages
RustFileU ==
    {"l.rs", "a/l.rs", "a/m.rs", "a/BUILD", "a/BUILD.bazel", "b/l.rs",
     "b/x.go"}

InitRust == InitOver(RustFileU)

SpecRust == InitRust /\ [][Next]_vars

\* the files of the trees scanned for their manifests: a directory with both
\* spellings, manifests in directories without a package, a directory named
\* BUILD
ManifestFileU ==
    {"BUILD", "a/BUILD", "a/BUILD.bazel", "a/x.go", "a/x_test.go", "a/m.py",
     "a/l.rs", "b/BUILD.bazel", "b/BUILD/x.go"}

InitManifest == InitOver(ManifestFileU)

SpecManifest == InitManifest /\ [][Next]_vars

\* the files of the trees scanned for their directory breakdown: Go files in
\* the root, in top-level directories and below them
DirFileU ==
    {"x.go", "a/x.go", "a/x_test.go", "a/b/x.go", "a/BUILD", "b/x.go",
     "(root)/x.go", "(root)/a/x.go", "m.py"}

InitDirs == InitOver(DirFileU)

SpecDirs == InitDirs /\ [][Next]_vars

\* the files of the trees scanned in any order of the visits
OrderFileU ==
    {"a/BUILD", "a/BUILD.bazel", "a/x.go", "b/l.rs"}

InitOrder == InitOver(OrderFileU)

\* Scan and Calculate with a walk that lists the entries of a directory in
\* any order
NextOrder ==
    \/ ScanStart
    \/ VisitError
    \/ VisitDirAnyOrder
    \/ VisitFile
    \/ WalkReturn
    \/ AssignStep
    \/ ScanReturn
    \/ Calculate

SpecOrder == InitOrder /\ [][NextOrder]_vars

\* the roots a Scanner is made for: plain names, names the exclusion rule
\* matches, a plain name below such a name
RootPaths == {"/r", "/vendor", "/.h", "/bazel-x", "/vendors", "/vendor/r"}

\* the files of the trees below these roots
RootFileU == {"x.go", "a/x_test.go", "a/BUILD", "m.py", "l.rs"}

\* a Scanner for one of the roots
InitRoot ==
    /\ repoPath \in RootPaths
    /\ files \in {{repoPath \o "/" \o f : f \in S} : S \in Trees(RootFileU)}
    /\ content \in [{f \in files : IsManifestName(Base(f))} -> ManifestTexts]
    /\ fault \in Faults
    /\ pc = "idle"
    /\ todo = <<>>
    /\ dirMap = <<>>
    /\ pending = {}
    /\ result = NewScanResult
    /\ scanErr = FALSE
    /\ report = NoReport
    /\ prev = <<>>
    /\ scans = 0
    /\ ptext = ""
    /\ pcounts = <<>>
    /\ cli = NoCli
    /\ order = <<>>

SpecRoot == InitRoot /\ [][Next]_vars

SpecFault == InitFault /\ [][Next]_vars

\* the files of the trees scanned for their file counts: source and test
\* file names of Go and Python, and names with no recognized suffix
CountFileU ==
    {"x_test.go", "a/x.go", "a/x_test.go", "a/test_x.go", "a/m.py",
     "a/test_m.py", "a/m_test.py", "a/m_tests.py", "a/README.md",
     "a/test_n.txt", "a/x.go.old", "b/README.md"}

\* a Scanner for such a tree, in which the root or an entry below it may fail
InitCount ==
    /\ repoPath \in RepoPaths
    /\ files \in {{repoPath \o "/" \o f : f \in S} : S \in Trees(CountFileU)}
    /\ content \in [{f \in files : IsManifestName(Base(f))} -> ManifestTexts]
    /\ fault \in EntryFaults
    /\ pc = "idle"
    /\ todo = <<>>
    /\ dirMap = <<>>
    /\ pending = {}
    /\ result = NewScanResult
    /\ scanErr = FALSE
    /\ report = NoReport
    /\ prev = <<>>
    /\ scans = 0
    /\ ptext = ""
    /\ pcounts = <<>>
    /\ cli = NoCli
    /\ order = <<>>

SpecCount == InitCount /\ [][Next]_vars

-----------------------------------------------------------------------------
(* The specification of a run of the command line program *)

\* the files of the trees the program is run on
MainFileU ==
    {"a/x.go", "a/x_test.go", "a/BUILD", "b/x_test.go", "b/BUILD", "m.py"}

\* what can go wrong with the output of a run
OutputFaults == {"none", "marshal", "write"}

\* the program is started on a root that does not exist, or on a tree whose
\* root may fail to be examined or listed; -benchmark and -max-benchmarks are
\* given or left at their defaults
InitMain ==
    /\ repoPath \in RepoPaths
    /\ files \in {{repoPath \o "/" \o f : f \in S} : S \in Trees(MainFileU)}
    /\ content \in [{f \in files : IsManifestName(Base(f))} -> ManifestTexts]
    /\ fault \in {NoFault} \cup {[kind |-> k, path |-> repoPath] :
                                    k \in {"lstat", "readdir"}}
    /\ pc = "main"
    /\ todo = <<>>
    /\ dirMap = <<>>
    /\ pending = {}
    /\ result = NewScanResult
    /\ scanErr = FALSE
    /\ report = NoReport
    /\ prev = <<>>
    /\ scans = 0
    /\ ptext = ""
    /\ pcounts = <<>>
    /\ order = <<>>
    /\ \E missing \in BOOLEAN : \E run \in BOOLEAN :
       \E max \in MaxBenchmarksU \cup {DefaultMaxTests} :
       \E out \in OutputFaults :
         /\ missing => files = {} /\ LstatFails(repoPath)
         /\ ~run => max = DefaultMaxTests
         /\ cli = [NoCli EXCEPT !.caller = "main", !.rootMissing = missing,
                                !.runBenchmarks = run, !.maxBenchmarks = max,
                                !.marshalFails = (out = "marshal"),
                                !.writeFails = (out = "write")]

NextMain ==
    \/ MainStart
    \/ VisitError
    \/ VisitDir
    \/ VisitFile
    \/ WalkReturn
    \/ AssignStep
    \/ ScanReturn
    \/ MainCalculate
    \/ MainBenchmark
    \/ RunStart
    \/ RunStep
    \/ RunReturn
    \/ MainOutput

SpecMain == InitMain /\ [][NextMain]_vars

-----------------------------------------------------------------------------
(* The specification of Runner.Run on a scan result *)

\* the relative paths of the Go packages of a scan result, in order
PkgNames == <<"a", "b", "c", "d", "e">>

\* the test file counts of the packages
TestCounts == {0, 1, 2, 20, 21}

\* the Go package of a scan result with the given counts
GoPackageWith(name, testFiles, testTargets) ==
    [NewPackage(repoPath \o "/" \o name, name, LangGo) EXCEPT
        !.HasBuildFile = testTargets > 0,
        !.HasTestFiles = testFiles > 0,
        !.SourceFileCount = 1,
        !.TestFileCount = testFiles,
        !.TestTargetCount = testTargets]

\* the Go lists of at most MaxPkgs packages, sorted by relative path
GoLists ==
    UNION {{[i \in 1..n |-> GoPackageWith(PkgNames[i], tf[i], tt[i])] :
               tf \in [1..n -> TestCounts], tt \in [1..n -> {0, 1}]} :
           n \in 0..MaxPkgs}

\* a Runner for a scan result and a maxTests, before Run is called
InitBench ==
    /\ repoPath \in RepoPaths
    /\ files = {}
    /\ content = <<>>
    /\ fault = NoFault
    /\ pc = "runner"
    /\ todo = <<>>
    /\ dirMap = <<>>
    /\ pending = {}
    /\ \E gl \in GoLists : result = [NewScanResult EXCEPT !.GoPackages = gl]
    /\ scanErr = FALSE
    /\ report = NoReport
    /\ prev = <<>>
    /\ scans = 1
    /\ ptext = ""
    /\ pcounts = <<>>
    /\ order = <<>>
    /\ \E max \in MaxBenchmarksU :
         cli = [NoCli EXCEPT !.caller = "api", !.maxBenchmarks = max]

NextBench ==
    \/ RunStart
    \/ RunStep
    \/ RunReturn

SpecBench == InitBench /\ [][NextBench]_vars

-----------------------------------------------------------------------------
(* The specification of one call of parseBuildFile on a manifest *)

\* the lines a manifest is written from
LineU ==
    {"go_test(", "  go_test(", "load(\"go_test\")", "my_go_test(", "go_test",
     "(", "# go_test(", "py_library (", "rust_binary(name = \"b\")", ""}

\* the line endings of a manifest
Eols == {"\n", "\r\n"}

\* the bytes of a file of the lines, with or without a final line ending
RECURSIVE FileText(_, _, _)
FileText(lines, eol, final) ==
    IF lines = <<>> THEN ""
    ELSE Head(lines)
           \o (IF Len(lines) = 1 /\ ~final THEN "" ELSE eol)
           \o FileText(Tail(lines), eol, final)

\* the manifests of at most MaxLines lines
ParseTexts ==
    {FileText(ls, eol, final) :
        ls \in UNION {[1..n -> LineU] : n \in 0..MaxLines},
        eol \in Eols, final \in BOOLEAN}

\* a Scanner and a manifest in the root of its tree, before parseBuildFile is
\* called on it; the opening or the reading of the manifest may fail
InitParse ==
    /\ repoPath \in RepoPaths
    /\ files = {repoPath \o "/BUILD"}
    /\ ptext \in ParseTexts
    /\ content = [f \in files |-> ptext]
    /\ fault \in {NoFault} \cup {[kind |-> k, path |-> repoPath \o "/BUILD"] :
                                    k \in {"open", "read"}}
    /\ pc = "parse"
    /\ todo = <<>>
    /\ dirMap = <<>>
    /\ pending = {}
    /\ result = NewScanResult
    /\ scanErr = FALSE
    /\ report = NoReport
    /\ prev = <<>>
    /\ scans = 0
    /\ pcounts = <<>>
    /\ cli = NoCli
    /\ order = <<>>

\* s.parseBuildFile(path) returns
ParseBuildFile ==
    /\ pc = "parse"
    /\ \E path \in files : pcounts' = <<parseBuildFile(path)>>
    /\ pc' = "parsed"
    /\ UNCHANGED <<repoPath, files, content, fault, todo, dirMap, pending,
                   result, scanErr, report, prev, scans, ptext, cli, order>>

NextParse == ParseBuildFile

SpecParse == InitParse /\ [][NextParse]_vars

-----------------------------------------------------------------------------
(* What the tree holds, stated without the walk *)

\* Scan has returned its result
Scanned == pc \in {"scanned", "calculated"}

Langs == {LangGo, LangPython, LangRust}

SuffixOf(lang) ==
    IF lang = LangGo THEN ".go" ELSE IF lang = LangPython THEN ".py" ELSE ".rs"

\* the packages of a list as a set
PackageSet(packages) == {packages[i] : i \in 1..Len(packages)}

AllPackages == UNION {PackageSet(PackagesOf(result, l)) : l \in Langs}

\* the directory and the directories above it up to the root
UpToRoot(dir) == {dir} \cup Ancestors(repoPath, dir)

\* the denylist of directory names
Denylist ==
    {".git", "bazel-bin", "bazel-out", "bazel-testlogs", "node_modules",
     ".cache", "vendor", "__pycache__", "target", ".venv", "venv"}

\* a directory name that excludes the directory and all below it
ExcludedName(base) ==
    base \in Denylist \/ HasPrefix(base, "bazel-") \/ HasPrefix(base, ".")

\* neither the directory nor a directory above it, the root included, has an
\* excluded name
NotExcluded(dir) == \A d \in UpToRoot(dir) : ~ExcludedName(Base(d))

\* the walk descends into the directory: it is not excluded, and it and the
\* directories above it can be examined and listed
Walked(dir) ==
    /\ NotExcluded(dir)
    /\ \A d \in UpToRoot(dir) : ~LstatFails(d) /\ ~ReadDirFails(d)

\* the file is reported to the callback without an error
Reported(f) == Walked(Dir(f)) /\ ~LstatFails(f)

\* the files directly in a directory
FilesIn(dir) == {f \in files : Dir(f) = dir}

ManifestsIn(dir) == {f \in FilesIn(dir) : IsManifestName(Base(f))}

SourcesIn(dir, lang) == {f \in FilesIn(dir) : HasSuffix(Base(f), SuffixOf(lang))}

\* the manifest was opened and read to the end without error
Parsed(f) == ~OpenFails(f) /\ ~ReadFails(f)

NoTargets(pkg) ==
    pkg.TestTargetCount = 0 /\ pkg.LibraryTargets = 0 /\ pkg.BinaryTargets = 0

-----------------------------------------------------------------------------
(* Claims *)

\* C1 as stated: after Scan, a package has HasBuildFile exactly if its
\* directory directly contains a file named BUILD or BUILD.bazel.
C1_AsStated ==
    Scanned => \A pkg \in AllPackages :
        pkg.HasBuildFile <=> ManifestsIn(pkg.Path) # {}

\* C1 amended: after Scan, a package of any language has HasBuildFile exactly
\* if its directory directly contains a file named BUILD or BUILD.bazel that
\* the walk reported without error; when no such manifest could be opened and
\* read, the package has HasBuildFile = TRUE with the three target counts 0.
C1_HasBuildFile ==
    Scanned => \A pkg \in AllPackages :
        LET seen == {f \in ManifestsIn(pkg.Path) : Reported(f)}
        IN  /\ pkg.HasBuildFile <=> seen # {}
            /\ (seen # {} /\ \A f \in seen : ~Parsed(f))
                   => pkg.HasBuildFile /\ NoTargets(pkg)

\* a scan that produced a package with HasBuildFile next to a manifest that
\* could not be read, and a package without HasBuildFile
C1_Witness ==
    /\ Scanned
    /\ \E pkg \in AllPackages :
         /\ pkg.HasBuildFile /\ NoTargets(pkg)
         /\ \E f \in ManifestsIn(pkg.Path) : Reported(f) /\ ~Parsed(f)
    /\ \E pkg \in AllPackages : ~pkg.HasBuildFile

\* the number of packages of a language's list whose path is dir
PackagesAt(lang, dir) ==
    Cardinality({i \in 1..Len(PackagesOf(result, lang)) :
                    PackagesOf(result, lang)[i].Path = dir})

\* no list holds two packages with the same relative path
NoDuplicatePaths ==
    \A l \in Langs : \A i, j \in 1..Len(PackagesOf(result, l)) :
        PackagesOf(result, l)[i].RelPath = PackagesOf(result, l)[j].RelPath
            => i = j

\* C2 as stated: after Scan, for every non-excluded directory and language
\* the list holds exactly one package of the directory if a file with the
\* language's suffix lies directly in it, and none otherwise.
C2_AsStated ==
    Scanned =>
        /\ \A dir \in Dirs : \A l \in Langs :
             NotExcluded(dir) =>
                PackagesAt(l, dir) = IF SourcesIn(dir, l) # {} THEN 1 ELSE 0
        /\ NoDuplicatePaths

\* C2 amended: after Scan, for every non-excluded directory D and language L
\* the list of L holds exactly one package whose path is D if at least one
\* file with L's suffix lying directly in D was reported by the walk without
\* error, and no package for D otherwise; the package counts the reported
\* files directly in D only, and no list holds two packages with the same
\* relative path.
C2_OnePackagePerDirAndLanguage ==
    Scanned =>
        /\ \A dir \in Dirs : \A l \in Langs :
             LET seen == {f \in SourcesIn(dir, l) : Reported(f)}
             IN  NotExcluded(dir) =>
                   /\ PackagesAt(l, dir) = IF seen # {} THEN 1 ELSE 0
                   /\ \A pkg \in PackageSet(PackagesOf(result, l)) :
                        pkg.Path = dir =>
                          /\ pkg.Language = l
                          /\ pkg.RelPath = Rel(repoPath, dir)
                          /\ pkg.SourceFileCount
                               + (IF l = LangRust THEN 0 ELSE pkg.TestFileCount)
                                 = Cardinality(seen)
        /\ NoDuplicatePaths

\* a scan of a directory with files of two languages and a subdirectory with
\* a file of its own: one package per language for the directory, one for the
\* subdirectory
C2_Witness ==
    /\ Scanned
    /\ \E dir, sub \in Dirs :
         /\ Dir(sub) = dir
         /\ PackagesAt(LangGo, dir) = 1
         /\ PackagesAt(LangGo, sub) = 1
         /\ \E l \in Langs \ {LangGo} : PackagesAt(l, dir) = 1

\* the counts a parsed manifest gives a package of a language
TargetsFor(lang, targets) ==
    IF lang = LangGo
    THEN <<targets.goTests, targets.goLibs, targets.goBins>>
    ELSE IF lang = LangPython
    THEN <<targets.pyTests, targets.pyLibs, targets.pyBins>>
    ELSE <<targets.rustTests, targets.rustLibs, targets.rustBins>>

TargetsOfPackage(pkg) ==
    <<pkg.TestTargetCount, pkg.LibraryTargets, pkg.BinaryTargets>>

\* C3: after Scan, the three target counts of a package are 0 unless its
\* directory holds a manifest that was reported, opened and read to the end
\* without error, and then they are the counts of such a manifest; a manifest
\* whose parse returned an error contributes to no package.
C3_TargetsOnlyFromParsedManifest ==
    Scanned => \A pkg \in AllPackages :
        LET parsed == {f \in ManifestsIn(pkg.Path) : Reported(f) /\ Parsed(f)}
        IN  IF parsed = {} THEN NoTargets(pkg)
            ELSE \E f \in parsed :
                    TargetsOfPackage(pkg)
                        = TargetsFor(pkg.Language, parseText(content[f]))

\* a scan where the only manifest of a package's directory was read with an
\* error after rule invocations had been seen, and the package has no targets
C3_Witness ==
    /\ Scanned
    /\ fault.kind = "read"
    /\ \E pkg \in AllPackages :
         /\ ManifestsIn(pkg.Path) = {fault.path}
         /\ TargetsFor(pkg.Language,
                       parseText(Truncated(content[fault.path]))) # <<0, 0, 0>>
         /\ pkg.HasBuildFile /\ NoTargets(pkg)

\* Calculate has returned its report
Calculated == pc = "calculated"

\* the tree a/ (one source file, one test file, a manifest with one go_test
\* and one go_library) and b/ (one source file, no manifest)
ScenarioTree ==
    /\ files = {repoPath \o "/a/x.go", repoPath \o "/a/x_test.go",
                repoPath \o "/a/BUILD", repoPath \o "/b/x.go"}
    /\ parseText(content[repoPath \o "/a/BUILD"]).goTests = 1
    /\ parseText(content[repoPath \o "/a/BUILD"]).goLibs = 1
    /\ fault = NoFault

\* C4: in every report, the BazelizedTestsPct of a language is 100 times the
\* number of its packages with test files and a test target, over the number
\* of its packages with test files, and 0 when no package has test files;
\* packages without test files count in neither; the tree a/, b/ of the
\* scenario gives 2 packages, 1 with manifest, 1 with tests, 50 / 50 / 100.
C4_BazelizedTestsPct ==
    Calculated =>
        /\ \A l \in DOMAIN report[1].LanguageSummaries :
             LET withTests == {pkg \in PackageSet(PackagesOf(result, l)) :
                                  pkg.HasTestFiles}
                 bazelized == {pkg \in withTests : pkg.TestTargetCount > 0}
                 pct == report[1].LanguageSummaries[l].BazelizedTestsPct
             IN  IF withTests = {} THEN pct = ZeroPct
                 ELSE /\ pct[2] > 0
                      /\ pct[1] * Cardinality(withTests)
                            = 100 * Cardinality(bazelized) * pct[2]
        /\ ScenarioTree =>
             LET go == report[1].LanguageSummaries[LangGo]
             IN  /\ go.TotalPackages = 2
                 /\ go.PackagesWithBuild = 1
                 /\ go.PackagesWithTests = 1
                 /\ PctIs(go.BazelizationPct, 50)
                 /\ PctIs(go.TestCoveragePct, 50)
                 /\ PctIs(go.BazelizedTestsPct, 100)

\* the report of the scenario tree
C4_Witness == Calculated /\ ScenarioTree

\* 0 <= pct <= 100 with a denominator that is not zero
InPctRange(pct) == pct[2] > 0 /\ 0 <= pct[1] /\ pct[1] <= 100 * pct[2]

\* C5: in every report, every language summary and every directory entry has
\* 0 <= PackagesWithBuild <= TotalPackages, 0 <= PackagesWithTests <=
\* TotalPackages, a bazelized-tests numerator within PackagesWithTests, every
\* percentage in [0,100], no division by zero, and a percentage of exactly 0
\* where the denominator is 0.
C5_CountsAndPercentagesInRange ==
    Calculated =>
        /\ \A l \in DOMAIN report[1].LanguageSummaries :
             LET sum == report[1].LanguageSummaries[l]
             IN  /\ 0 <= sum.PackagesWithBuild
                 /\ sum.PackagesWithBuild <= sum.TotalPackages
                 /\ 0 <= sum.PackagesWithTests
                 /\ sum.PackagesWithTests <= sum.TotalPackages
                 /\ InPctRange(sum.BazelizationPct)
                 /\ InPctRange(sum.TestCoveragePct)
                 /\ InPctRange(sum.BazelizedTestsPct)
                 /\ sum.BazelizedTestsPct[1] * sum.PackagesWithTests
                        <= 100 * sum.PackagesWithTests
                              * sum.BazelizedTestsPct[2]
                 /\ sum.PackagesWithTests = 0
                        => sum.BazelizedTestsPct = ZeroPct
                 /\ sum.TotalPackages = 0
                        => /\ sum.BazelizationPct = ZeroPct
                           /\ sum.TestCoveragePct = ZeroPct
        /\ \A i \in 1..Len(report[1].DirectoryBreakdown) :
             LET dm == report[1].DirectoryBreakdown[i]
             IN  /\ 0 <= dm.BazelizedPackages
                 /\ dm.BazelizedPackages <= dm.TotalPackages
                 /\ 0 <= dm.PackagesWithTests
                 /\ dm.PackagesWithTests <= dm.TotalPackages
                 /\ InPctRange(dm.BazelizationPct)
                 /\ InPctRange(dm.TestCoveragePct)
                 /\ dm.TotalPackages = 0
                        => /\ dm.BazelizationPct = ZeroPct
                           /\ dm.TestCoveragePct = ZeroPct
        /\ InPctRange(report[1].Summary.BazelizationPct)
        /\ InPctRange(report[1].Summary.TestCoveragePct)
        /\ InPctRange(report[1].Summary.BazelizedTestsPct)

\* a report with a language that has packages but none with test files (the
\* denominator of its bazelized-tests percentage is 0) and a directory entry
\* of 100 percent
C5_Witness ==
    /\ Calculated
    /\ \E l \in DOMAIN report[1].LanguageSummaries :
         /\ report[1].LanguageSummaries[l].TotalPackages > 0
         /\ report[1].LanguageSummaries[l].PackagesWithTests = 0
         /\ report[1].LanguageSummaries[l].BazelizedTestsPct = ZeroPct
    /\ \E i \in 1..Len(report[1].DirectoryBreakdown) :
         PctIs(report[1].DirectoryBreakdown[i].BazelizationPct, 100)

\* a report without its timestamp and without its directory breakdown
Comparable(rep) ==
    [Summary |-> rep.Summary, Packages |-> rep.Packages,
     Languages |-> rep.Languages, LanguageSummaries |-> rep.LanguageSummaries,
     GoPackages |-> rep.GoPackages, PythonPackages |-> rep.PythonPackages,
     RustPackages |-> rep.RustPackages]

DeniedSegment(seg) == seg \in Denylist \/ HasPrefix(seg, "bazel-")

\* the file lies below a directory with an excluded name
BelowExcluded(f) == ~NotExcluded(Dir(f))

\* the files that may add to a count: those not below an excluded directory
\* that the walk reports without error
Countable == {f \in files : ~BelowExcluded(f) /\ Reported(f)}

CountableWith(suffix) == {f \in Countable : HasSuffix(Base(f), suffix)}

\* C7: after Scan no package's relative path has a segment on the denylist
\* or starting with "bazel-", and the files below an excluded directory or
\* below a directory whose name starts with "." add to no package count, to
\* no global total and not to the manifest counter: every count is the count
\* of the files outside such directories.
C7_ExcludedSubtreesCountNothing ==
    Scanned =>
        /\ \A pkg \in AllPackages :
             /\ \A i \in 1..Len(Segments(pkg.RelPath)) :
                  ~DeniedSegment(Segments(pkg.RelPath)[i])
             /\ NotExcluded(pkg.Path)
             /\ pkg.SourceFileCount + pkg.TestFileCount
                  = Cardinality({f \in SourcesIn(pkg.Path, pkg.Language) :
                                    f \in Countable})
        /\ result.TotalGoFiles + result.TotalGoTests
             = Cardinality(CountableWith(".go"))
        /\ result.TotalPythonFiles + result.TotalPythonTests
             = Cardinality(CountableWith(".py"))
        /\ result.TotalRustFiles = Cardinality(CountableWith(".rs"))
        /\ result.TotalBUILDs
             = Cardinality({f \in Countable : IsManifestName(Base(f))})

\* a scanned tree with a package and with a source file and a manifest below
\* three kinds of excluded directory: on the denylist, with the prefix
\* "bazel-", hidden
C7_Witness ==
    /\ Scanned
    /\ AllPackages # {}
    /\ \E f \in files : BelowExcluded(f) /\ HasSuffix(Base(f), ".go")
                          /\ Base(Dir(f)) \in Denylist
    /\ \E f \in files : BelowExcluded(f) /\ HasPrefix(Base(Dir(f)), "bazel-")
    /\ \E f \in files : BelowExcluded(f) /\ HasPrefix(Base(Dir(f)), ".")

\* a list in non-decreasing order of the field under byte-wise comparison
SortedBy(list, field) ==
    \A i \in 1..Len(list) : \A j \in 1..Len(list) :
        i < j => ~StrLess(list[j][field], list[i][field])

\* C8: in the result of Scan and in the goPackages, pythonPackages,
\* rustPackages and packages arrays of the report, the packages of each
\* language are in non-decreasing order of relative path under plain string
\* comparison, whatever the order of the visits and of the map iteration.
C8_ListsSortedByRelPath ==
    /\ Scanned =>
         \A l \in Langs : SortedBy(PackagesOf(result, l), "RelPath")
    /\ Calculated =>
         /\ SortedBy(report[1].GoPackages, "Path")
         /\ SortedBy(report[1].PythonPackages, "Path")
         /\ SortedBy(report[1].RustPackages, "Path")
         /\ \A l \in Langs :
              SortedBy(SelectSeq(report[1].Packages,
                                 LAMBDA pi : pi.Language = l), "Path")

\* a report whose Go list has "a-b" before "a/c" (the order of the bytes, not
\* of the path segments) after the map gave "a/c" first
C8_Witness ==
    /\ Calculated
    /\ \E i \in 1..Len(result.GoPackages) : \E j \in 1..Len(result.GoPackages) :
         /\ i < j
         /\ result.GoPackages[i].RelPath = "a-b"
         /\ result.GoPackages[j].RelPath = "a/c"
    /\ Len(report[1].GoPackages) = Len(result.GoPackages)

\* the sum of a field over the entries of a directory breakdown
RECURSIVE SumField(_, _)
SumField(entries, field) ==
    IF entries = <<>> THEN 0
    ELSE Head(entries)[field] + SumField(Tail(entries), field)

\* the first component of a relative path, "(root)" for the root
TopOf(relPath) ==
    IF relPath = "." THEN "(root)"
    ELSE IF FirstSlash(relPath, 1) > Len(relPath) THEN relPath
    ELSE SubSeq(relPath, 1, FirstSlash(relPath, 1) - 1)

\* C9: in every report the sums of TotalPackages, BazelizedPackages and
\* PackagesWithTests over the directoryBreakdown entries equal the Go
\* summary's TotalPackages (the length of the Go list), PackagesWithBuild and
\* PackagesWithTests; every Go package is counted in exactly one entry, the
\* packages of the other languages in none.
C9_DirectoryBreakdownComplete ==
    Calculated =>
        LET entries == report[1].DirectoryBreakdown
            goSet   == PackageSet(result.GoPackages)
        IN  /\ SumField(entries, "TotalPackages") = Len(result.GoPackages)
            /\ SumField(entries, "BazelizedPackages")
                 = Cardinality({pkg \in goSet : pkg.HasBuildFile})
            /\ SumField(entries, "PackagesWithTests")
                 = Cardinality({pkg \in goSet : pkg.HasTestFiles})
            /\ LangGo \in DOMAIN report[1].LanguageSummaries =>
                 LET go == report[1].LanguageSummaries[LangGo]
                 IN  /\ SumField(entries, "TotalPackages") = go.TotalPackages
                     /\ SumField(entries, "BazelizedPackages")
                          = go.PackagesWithBuild
                     /\ SumField(entries, "PackagesWithTests")
                          = go.PackagesWithTests
            /\ \A i \in 1..Len(entries) : \A j \in 1..Len(entries) :
                 entries[i].Name = entries[j].Name => i = j
            /\ \A pkg \in goSet :
                 \E i \in 1..Len(entries) : entries[i].Name = TopOf(pkg.RelPath)
            /\ \A i \in 1..Len(entries) :
                 entries[i].TotalPackages
                   = Cardinality({pkg \in goSet :
                                     TopOf(pkg.RelPath) = entries[i].Name})

\* a report with Go packages in the root, in a/ and in a/c/ and a package of
\* another language: two entries, one of them counting two packages
C9_Witness ==
    /\ Calculated
    /\ Len(report[1].DirectoryBreakdown) >= 2
    /\ \E i \in 1..Len(report[1].DirectoryBreakdown) :
         report[1].DirectoryBreakdown[i].TotalPackages = 2
    /\ \E i \in 1..Len(report[1].DirectoryBreakdown) :
         report[1].DirectoryBreakdown[i].Name = "(root)"
    /\ Len(result.PythonPackages) + Len(result.RustPackages) > 0

\* parseBuildFile has returned a nil error for the manifest
ParsedAlone == pc = "parsed" /\ pcounts # <<>> /\ pcounts[1].ok

\* the lines of a text: the pieces between its line feeds
RECURSIVE LinesOf(_)
LinesOf(text) ==
    IF text = "" THEN <<>>
    ELSE <<SubSeq(text, 1, SkipToNl(text, 1) - 1)>>
           \o LinesOf(SubSeq(text, SkipToNl(text, 1) + 1, Len(text)))

\* the line is optional whitespace, the name, optional whitespace, "(" and
\* whatever follows
IsCallLine(name, line) ==
    LET j == SkipSpace(line, 1)
        k == SkipSpace(line, j + Len(name))
    IN  /\ j + Len(name) - 1 <= Len(line)
        /\ SubSeq(line, j, j + Len(name) - 1) = name
        /\ k <= Len(line)
        /\ CharAt(line, k) = "("

\* the number of lines of a text that call the rule
CallLines(name, text) ==
    Cardinality({i \in 1..Len(LinesOf(text)) :
                    IsCallLine(name, LinesOf(text)[i])})

\* C10: for each of the nine rule names, parseBuildFile counts the lines of
\* the manifest that are optional whitespace, the exact rule name, optional
\* whitespace and an opening parenthesis.  The code does not: the pattern's
\* \s* also matches line breaks, so a line that ends with the rule name
\* counts when a later line begins with the parenthesis.
C10_AsStated ==
    ParsedAlone =>
        \A f \in DOMAIN regexNames :
            pcounts[1].targets[1][f] = CallLines(regexNames[f], ptext)

\* the manifest of the two lines "go_test" and "(": no line calls go_test,
\* parseBuildFile returns a test count of 1
C10_Witness ==
    /\ ParsedAlone
    /\ ptext = "go_test\n(\n"
    /\ CallLines("go_test", ptext) = 0
    /\ pcounts[1].targets[1].goTests = 1

\* the line is a comment: its first character after optional whitespace is #
IsCommentLine(line) ==
    /\ SkipSpace(line, 1) <= Len(line)
    /\ CharAt(line, SkipSpace(line, 1)) = "#"

\* the line has the name right after its optional leading whitespace
BeginsWith(name, line) ==
    LET j == SkipSpace(line, 1)
    IN  /\ j + Len(name) - 1 <= Len(line)
        /\ SubSeq(line, j, j + Len(name) - 1) = name

\* the number of lines of a text that pass for a comment
CommentLines(text) ==
    Cardinality({i \in 1..Len(LinesOf(text)) : IsCommentLine(LinesOf(text)[i])})

\* C11 as stated: a manifest line with the rule invocation inside a comment
\* counts, so the Go test-role count of a parsed manifest is at least the
\* number of its lines `# go_test(`.
C11_AsStated ==
    ParsedAlone =>
        pcounts[1].targets[1].goTests
            >= Cardinality({i \in 1..Len(LinesOf(ptext)) :
                               LinesOf(ptext)[i] \in {"# go_test(", "# go_test(\r"}})

\* C11: a comment line never counts: each of the nine counts of a parsed
\* manifest is at most the number of its lines that have the rule name right
\* after their leading whitespace, so a manifest whose only line is
\* `# go_test(` has a Go test-role count of 0.
C11_CommentLineNotCounted ==
    ParsedAlone =>
        /\ \A f \in DOMAIN regexNames :
             pcounts[1].targets[1][f]
                <= Cardinality({i \in 1..Len(LinesOf(ptext)) :
                       BeginsWith(regexNames[f], LinesOf(ptext)[i])})
        /\ CommentLines(ptext) = Len(LinesOf(ptext)) =>
             \A f \in DOMAIN regexNames : pcounts[1].targets[1][f] = 0

\* the manifest of the one line `# go_test(`, parsed: a Go test-role count of 0
C11_Witness ==
    /\ ParsedAlone
    /\ ptext = "# go_test(\n"
    /\ CommentLines(ptext) = 1
    /\ pcounts[1].targets[1].goTests = 0

\* the root cannot be examined or its entries cannot be listed
RootFails == LstatFails(repoPath) \/ ReadDirFails(repoPath)

\* C12 as stated: if the root directory itself cannot be enumerated, Scan
\* returns a non-nil error instead of a result, and in no other case.
C12_AsStated == Scanned => (scanErr <=> RootFails)

\* Scan has returned a result and a nil error for a tree with files whose
\* root cannot be listed: the result has no package and counts no file
C12_Witness ==
    /\ Scanned
    /\ ReadDirFails(repoPath)
    /\ files # {}
    /\ ~scanErr
    /\ result = NewScanResult

\* the walk reports an error for an entry below the root
EntryFails ==
    /\ fault.kind \in {"lstat", "readdir"}
    /\ fault.path # repoPath

\* the files of the tree without the failing entry and what lies below it
Remaining ==
    {f \in files : f # fault.path /\ fault.path \notin Ancestors(repoPath, f)}

\* the file is a test file of the language by its name
IsTestName(lang, filename) ==
    IF lang = LangGo THEN HasSuffix(filename, "_test.go")
    ELSE IF lang = LangPython THEN IsPythonTest(filename)
    ELSE FALSE

\* the package a scan without errors gives a directory and a language for the
\* files R: counts of the files directly in the directory and the targets of
\* its manifest
PackageFor(dir, lang, R) ==
    LET srcs  == {f \in R : Dir(f) = dir /\ HasSuffix(Base(f), SuffixOf(lang))}
        tests == {f \in srcs : IsTestName(lang, Base(f))}
        mfs   == {f \in R : Dir(f) = dir /\ IsManifestName(Base(f))}
        tg    == IF mfs = {} THEN <<0, 0, 0>>
                 ELSE TargetsFor(lang, parseText(content[CHOOSE f \in mfs : TRUE]))
        rustT == IF lang = LangRust THEN tg[1] ELSE 0
    IN  [Path |-> dir, RelPath |-> Rel(repoPath, dir), Language |-> lang,
         HasBuildFile |-> mfs # {},
         HasTestFiles |-> tests # {} \/ rustT > 0,
         SourceFileCount |-> Cardinality(srcs \ tests),
         TestFileCount |-> Cardinality(tests) + rustT,
         TestTargetCount |-> tg[1], LibraryTargets |-> tg[2],
         BinaryTargets |-> tg[3]]

\* the packages of a language a scan without errors gives for the files R
PackagesFor(lang, R) ==
    {PackageFor(Dir(f), lang, R) :
        f \in {g \in R : HasSuffix(Base(g), SuffixOf(lang))
                           /\ NotExcluded(Dir(g))}}

\* the number of files of R outside excluded directories that pass for a
\* source (test = FALSE) or a test (test = TRUE) file of the language
FilesFor(lang, test, R) ==
    Cardinality({f \in R : /\ NotExcluded(Dir(f))
                           /\ HasSuffix(Base(f), SuffixOf(lang))
                           /\ IsTestName(lang, Base(f)) = test})

\* C13: when the walk reports an error for a file or a subdirectory, Scan
\* returns a result and a nil error, and the result is the one of the tree
\* without the failing entry and what lies below it: the same packages with
\* the same counts, the same global totals, the same manifest counter.
C13_FailingEntryAsIfAbsent ==
    (Scanned /\ EntryFails) =>
        /\ ~scanErr
        /\ \A l \in Langs :
             /\ PackageSet(PackagesOf(result, l)) = PackagesFor(l, Remaining)
             /\ Len(PackagesOf(result, l))
                  = Cardinality(PackagesFor(l, Remaining))
        /\ result.TotalGoFiles = FilesFor(LangGo, FALSE, Remaining)
        /\ result.TotalGoTests = FilesFor(LangGo, TRUE, Remaining)
        /\ result.TotalPythonFiles = FilesFor(LangPython, FALSE, Remaining)
        /\ result.TotalPythonTests = FilesFor(LangPython, TRUE, Remaining)
        /\ result.TotalRustFiles = FilesFor(LangRust, FALSE, Remaining)
        /\ result.TotalBUILDs
             = Cardinality({f \in Remaining : /\ NotExcluded(Dir(f))
                                              /\ IsManifestName(Base(f))})

\* a scan that returned packages although a subdirectory with files could
\* not be listed or a source file could not be examined
C13_Witness ==
    /\ Scanned /\ EntryFails
    /\ Remaining # files
    /\ AllPackages # {}
    /\ \E f \in files \ Remaining : \E pkg \in AllPackages :
         Dir(f) = pkg.Path \/ pkg.Path \in Ancestors(repoPath, f)

\* the index of the first package of the Go list that belongs to the group
FirstOf(name) ==
    CHOOSE i \in 1..Len(result.GoPackages) :
        /\ TopOf(result.GoPackages[i].RelPath) = name
        /\ \A j \in 1..(i - 1) : TopOf(result.GoPackages[j].RelPath) # name

\* C14 as stated: the groups of the directory breakdown are ordered by
\* TotalPackages descending, groups with equal TotalPackages in the order in
\* which their first package occurs in the Go list, and a second call on the
\* same list returns the groups in the same order.
C14_AsStated ==
    Calculated =>
        LET entries == report[1].DirectoryBreakdown
        IN  /\ \A i \in 1..Len(entries) : \A j \in 1..Len(entries) :
                 i < j =>
                   /\ entries[i].TotalPackages >= entries[j].TotalPackages
                   /\ entries[i].TotalPackages = entries[j].TotalPackages
                        => FirstOf(entries[i].Name) < FirstOf(entries[j].Name)
            /\ (prev # <<>> /\ prev[1].result = result)
                 => prev[1].report.DirectoryBreakdown = entries

\* a report whose breakdown has two groups of equal size with the group
\* encountered later in the Go list first
C14_Witness ==
    /\ Calculated
    /\ \E i \in 1..Len(report[1].DirectoryBreakdown) :
       \E j \in 1..Len(report[1].DirectoryBreakdown) :
         /\ i < j
         /\ report[1].DirectoryBreakdown[i].TotalPackages
              = report[1].DirectoryBreakdown[j].TotalPackages
         /\ FirstOf(report[1].DirectoryBreakdown[i].Name)
              > FirstOf(report[1].DirectoryBreakdown[j].Name)

\* the ids of the languages
LangIds == <<LangGo, LangPython, LangRust>>

\* the per-language package array of a report
ArrayOf(rep, lang) ==
    IF lang = LangGo THEN rep.GoPackages
    ELSE IF lang = LangPython THEN rep.PythonPackages
    ELSE rep.RustPackages

\* C15: in every report a language id is in `languages` exactly if its
\* scanned list is non-empty, exactly if `languageSummaries` has an entry for
\* it, exactly if its package array is populated; each id appears at most
\* once, in the order go, python, rust; with no recognized file `languages`,
\* `languageSummaries`, `packages` and `directoryBreakdown` are empty.
C15_LanguagesObserved ==
    Calculated =>
        LET rep  == report[1]
            ids  == {rep.Languages[i] : i \in 1..Len(rep.Languages)}
        IN  /\ ids \subseteq Langs
            /\ \A l \in Langs :
                 /\ l \in ids <=> Len(PackagesOf(result, l)) > 0
                 /\ l \in ids <=> l \in DOMAIN rep.LanguageSummaries
                 /\ l \in ids <=> Len(ArrayOf(rep, l)) > 0
                 /\ Len(ArrayOf(rep, l)) = Len(PackagesOf(result, l))
            /\ \A i \in 1..Len(rep.Languages) : \A j \in 1..Len(rep.Languages) :
                 i < j => \E a \in 1..3 : \E b \in 1..3 :
                            /\ a < b
                            /\ rep.Languages[i] = LangIds[a]
                            /\ rep.Languages[j] = LangIds[b]
            /\ AllPackages = {} =>
                 /\ rep.Languages = <<>>
                 /\ DOMAIN rep.LanguageSummaries = {}
                 /\ rep.Packages = <<>>
                 /\ rep.DirectoryBreakdown = <<>>

\* a report of python and rust packages without a Go package: two ids in the
\* fixed order
C15_Witness ==
    /\ Calculated
    /\ report[1].Languages = <<LangPython, LangRust>>
    /\ Len(report[1].PythonPackages) > 0
    /\ report[1].GoPackages = <<>>

\* a report of a tree without any recognized file
C15_WitnessEmpty == Calculated /\ AllPackages = {} /\ report[1].Languages = <<>>

\* C16: the legacy summary of a report mirrors the Go language summary field
\* by field, with totalBuildFiles the manifest counter of the scan, and the
\* legacy packages array holds the Go packages in the same order; without a
\* Go package every legacy summary field is 0, totalBuildFiles too, and the
\* packages array is empty.
C16_LegacySummaryMirrorsGo ==
    Calculated =>
        LET rep == report[1]
            sum == rep.Summary
        IN  IF Len(result.GoPackages) > 0
            THEN LET go == rep.LanguageSummaries[LangGo]
                 IN  /\ sum.BazelizationPct = go.BazelizationPct
                     /\ sum.TestCoveragePct = go.TestCoveragePct
                     /\ sum.BazelizedTestsPct = go.BazelizedTestsPct
                     /\ sum.TotalPackages = go.TotalPackages
                     /\ sum.TotalTestFiles = go.TotalTestFiles
                     /\ sum.TotalGoFiles = go.TotalSourceFiles
                     /\ sum.PackagesWithBuild = go.PackagesWithBuild
                     /\ sum.PackagesWithTests = go.PackagesWithTests
                     /\ sum.TotalGoTestTargets = go.TotalTestTargets
                     /\ sum.TotalBuildFiles = result.TotalBUILDs
                     /\ rep.Packages = rep.GoPackages
                     /\ Len(rep.Packages) = Len(result.GoPackages)
                     /\ \A i \in 1..Len(rep.Packages) :
                          /\ rep.Packages[i].Path = result.GoPackages[i].RelPath
                          /\ rep.Packages[i].Language = LangGo
            ELSE /\ PctIs(sum.BazelizationPct, 0)
                 /\ PctIs(sum.TestCoveragePct, 0)
                 /\ PctIs(sum.BazelizedTestsPct, 0)
                 /\ sum.TotalPackages = 0
                 /\ sum.TotalBuildFiles = 0
                 /\ sum.TotalTestFiles = 0
                 /\ sum.TotalGoFiles = 0
                 /\ sum.PackagesWithBuild = 0
                 /\ sum.PackagesWithTests = 0
                 /\ sum.TotalGoTestTargets = 0
                 /\ rep.Packages = <<>>

\* a report of a scan that found a manifest and a package of another
\* language but no Go package: totalBuildFiles is 0, the counter is not
C16_Witness ==
    /\ Calculated
    /\ result.GoPackages = <<>>
    /\ result.TotalBUILDs > 0
    /\ AllPackages # {}
    /\ report[1].Summary.TotalBuildFiles = 0

\* a report with Go packages that have source files, test files and targets
C16_WitnessGo ==
    /\ Calculated
    /\ Len(result.GoPackages) >= 2
    /\ report[1].Summary.TotalGoFiles >= 2
    /\ report[1].Summary.TotalTestFiles = 1
    /\ report[1].Summary.TotalBuildFiles = 1
    /\ report[1].Summary.TotalGoTestTargets = 1

\* the report as Calculate returns it for the scan result, whatever its
\* speed comparison
AsCalculated(rep) ==
    \E breakdown \in calculateDirectoryBreakdown(result.GoPackages) :
        [rep EXCEPT !.SpeedComparison = <<>>]
            = ReportOf(result, scans, breakdown)

\* C17: SetSpeedComparison stores the payload unchanged in SpeedComparison
\* and changes no other field of the report; the speed comparison is absent
\* unless benchmarking was requested, the scan found a Go package and the
\* runner returned without error; Calculate never sets it.
C17_SpeedComparisonOnlyFromBenchmark ==
    report # NoReport =>
        /\ AsCalculated(report[1])
        /\ pc = "calculated" => report[1].SpeedComparison = <<>>
        /\ report[1].SpeedComparison # <<>> =>
             /\ cli.runBenchmarks
             /\ Len(result.GoPackages) > 0
             /\ ~cli.runErr
             /\ report[1].SpeedComparison = cli.speed
             /\ Len(cli.speed[1].Packages) = Len(cli.benchmarked)
        /\ (cli.exit = <<0>>) => cli.file = report

\* a run that ended with a report holding the timings of a package, written
\* to the output file
C17_Witness ==
    /\ pc = "exit"
    /\ cli.exit = <<0>>
    /\ report[1].SpeedComparison # <<>>
    /\ Len(report[1].SpeedComparison[1].Packages) >= 1
    /\ Len(report[1].Packages) >= 1
    /\ cli.file = report

\* a run that was asked for benchmarks, found no Go package and wrote a
\* report without a speed comparison
C17_WitnessAbsent ==
    /\ pc = "exit"
    /\ cli.runBenchmarks
    /\ AllPackages # {}
    /\ cli.exit = <<0>>
    /\ cli.file[1].SpeedComparison = <<>>

\* C18 as stated: the run ends with a non-zero status and no report file
\* when the root does not exist, when the walk fails (the root cannot be
\* examined or listed) or when the report cannot be serialized, non-zero when
\* the report cannot be written, and in every other run with status zero and
\* the report written.
C18_AsStated ==
    pc = "exit" =>
        IF cli.rootMissing \/ RootFails \/ cli.marshalFails
        THEN cli.exit = <<1>> /\ cli.file = <<>>
        ELSE IF cli.writeFails THEN cli.exit = <<1>>
        ELSE cli.exit = <<0>> /\ cli.file = report

\* a run on a tree with files whose root could not be listed: status zero
\* and the report of an empty scan written
C18_Witness ==
    /\ pc = "exit"
    /\ ReadDirFails(repoPath)
    /\ files # {}
    /\ cli.exit = <<0>>
    /\ cli.file = report
    /\ report[1].Languages = <<>>

\* the maxTests in force: 5 for a given one that is not positive
MaxTestsInForce == IF cli.maxBenchmarks <= 0 THEN 5 ELSE cli.maxBenchmarks

\* the Go packages that may be benchmarked
EligiblePackages ==
    {pkg \in PackageSet(result.GoPackages) :
        /\ pkg.HasTestFiles
        /\ pkg.TestTargetCount > 0
        /\ 1 <= pkg.TestFileCount /\ pkg.TestFileCount <= 20}

\* the smaller of two numbers
Least(a, b) == IF a <= b THEN a ELSE b

\* C19: Run benchmarks at most maxTests packages, 5 for a maxTests <= 0;
\* they are eligible Go packages only (test files, a test target, 1 to 20
\* test files), the min(maxTests, number eligible) ones with the fewest test
\* files, processed in non-decreasing order of TestFileCount; with no
\* eligible package Run returns an empty speed report and no error.
C19_BenchmarksFewestTestFiles ==
    /\ pc \in {"running", "ran"} =>
         /\ Len(cli.benchmarked) <= MaxTestsInForce
         /\ \A i \in 1..Len(cli.benchmarked) :
              cli.benchmarked[i] \in EligiblePackages
    /\ pc = "ran" =>
         /\ Len(cli.benchmarked)
              = Least(MaxTestsInForce, Cardinality(EligiblePackages))
         /\ \A i \in 1..Len(cli.benchmarked) : \A j \in 1..Len(cli.benchmarked) :
              /\ i < j => cli.benchmarked[i].TestFileCount
                             <= cli.benchmarked[j].TestFileCount
              /\ cli.benchmarked[i] = cli.benchmarked[j] => i = j
         /\ \A i \in 1..Len(cli.benchmarked) :
              \A pkg \in EligiblePackages \ PackageSet(cli.benchmarked) :
                 cli.benchmarked[i].TestFileCount <= pkg.TestFileCount
         /\ Len(cli.speed[1].Packages) = Len(cli.benchmarked)
         /\ \A i \in 1..Len(cli.benchmarked) :
              cli.speed[1].Packages[i].Path = cli.benchmarked[i].RelPath
         /\ ~cli.runErr
         /\ EligiblePackages = {} => cli.speed = <<NewSpeedReport>>

\* a Run with maxTests 2 on a list with three eligible packages of 20, 2 and
\* 1 test files: the last two were benchmarked, the one with 1 first
C19_Witness ==
    /\ pc = "ran"
    /\ cli.maxBenchmarks = 2
    /\ Cardinality(EligiblePackages) = 3
    /\ Len(cli.benchmarked) = 2
    /\ cli.benchmarked[1].TestFileCount = 1
    /\ cli.benchmarked[1].RelPath = "c"
    /\ cli.benchmarked[2].TestFileCount = 2
    /\ result.GoPackages[1].TestFileCount = 20

\* a Run with maxTests 0 on a list without an eligible package
C19_WitnessNone ==
    /\ pc = "ran"
    /\ cli.maxBenchmarks = 0
    /\ Len(result.GoPackages) = 3
    /\ EligiblePackages = {}
    /\ cli.speed = <<NewSpeedReport>>

ManifestOrder(dir) == <<dir \o "/BUILD", dir \o "/BUILD.bazel">>

\* both spellings are in the directory and both are reported to the callback
HoldsBoth(dir) ==
    \A i \in 1..2 : ManifestOrder(dir)[i] \in files
                       /\ Reported(ManifestOrder(dir)[i])

\* the counts a directory with both spellings hands to a package of a
\* language: those of the last manifest that parsed, none if neither parsed
LastParsedTargets(dir, lang) ==
    LET m == ManifestOrder(dir) IN
    IF Parsed(m[2]) THEN TargetsFor(lang, parseText(content[m[2]]))
    ELSE IF Parsed(m[1]) THEN TargetsFor(lang, parseText(content[m[1]]))
    ELSE <<0, 0, 0>>

C21_WitnessBothParsed ==
    /\ Scanned
    /\ fault = NoFault
    /\ \E dir \in Dirs :
         /\ HoldsBoth(dir)
         /\ \E pkg \in PackageSet(result.GoPackages) :
              /\ pkg.Path = dir
              /\ pkg.BinaryTargets = 1 /\ pkg.LibraryTargets = 0
              /\ TargetsFor(LangGo, parseText(content[ManifestOrder(dir)[1]]))
                   = <<1, 1, 0>>

\* a Go or Python test file, by its name
TestFileName(lang, filename) ==
    IF lang = LangGo THEN HasSuffix(filename, "_test.go")
    ELSE \/ HasSuffix(filename, "_test.py")
         \/ HasPrefix(filename, "test_")
         \/ HasSuffix(filename, "_tests.py")

\* the name ends in .go, .py or .rs
Recognized(filename) == \E l \in Langs : HasSuffix(filename, SuffixOf(l))

\* the three packages of a directory entry of dirMap, nil for a directory
\* that has no entry
PackagesOfDir(dm, dir) ==
    IF dir \in DOMAIN dm
    THEN <<dm[dir].goPkg, dm[dir].pythonPkg, dm[dir].rustPkg>>
    ELSE <<<<>>, <<>>, <<>>>>

\* the file counts of every Go and Python package after Scan
C22_Counts ==
    Scanned => \A lang \in {LangGo, LangPython} :
        \A pkg \in PackageSet(PackagesOf(result, lang)) :
            LET visited == {f \in SourcesIn(pkg.Path, lang) : Reported(f)}
                tests   == {f \in visited : TestFileName(lang, Base(f))}
            IN  /\ pkg.TestFileCount = Cardinality(tests)
                /\ pkg.SourceFileCount = Cardinality(visited \ tests)
                /\ pkg.SourceFileCount + pkg.TestFileCount
                     = Cardinality(visited)
                /\ pkg.SourceFileCount + pkg.TestFileCount >= 1
                /\ pkg.HasTestFiles <=> pkg.TestFileCount > 0

\* the callback on a file with no recognized suffix changes no package
C22_OtherFilesChangeNothing ==
    (/\ pc = "walk" /\ todo # <<>>
     /\ dirMap' # dirMap
     /\ ~Recognized(Base(Head(todo))))
    => \A dir \in DOMAIN dirMap' :
          PackagesOfDir(dirMap', dir) = PackagesOfDir(dirMap, dir)

C22_WitnessGo ==
    /\ Scanned
    /\ \E pkg \in PackageSet(result.GoPackages) :
         /\ (pkg.Path \o "/test_x.go") \in files
         /\ (pkg.Path \o "/x_test.go") \in files
         /\ \E f \in FilesIn(pkg.Path) : ~Recognized(Base(f))
         /\ pkg.TestFileCount = 1 /\ pkg.SourceFileCount = 1

\* the totals of a language the walker keeps in the scan result: source
\* files, test files, test rules
TotalsOf(res, lang) ==
    IF lang = LangGo
    THEN <<res.TotalGoFiles, res.TotalGoTests, res.TotalGoTestRules>>
    ELSE IF lang = LangPython
    THEN <<res.TotalPythonFiles, res.TotalPythonTests, res.TotalPyTestRules>>
    ELSE <<res.TotalRustFiles, res.TotalRustTests, res.TotalRustTestRules>>

\* the files of a language the walk reported
VisitedOf(lang) ==
    {f \in files : Reported(f) /\ HasSuffix(Base(f), SuffixOf(lang))}

\* C23: for each language the scan's source-file, test-file and test-rule
\* totals equal the sums of SourceFileCount, TestFileCount and
\* TestTargetCount over the packages of the language, and so the
\* TotalSourceFiles, TotalTestFiles and TotalTestTargets of its language
\* summary; every counted file lies in the directory of exactly one package
\* of the language.
C23_TotalsAgreeWithPackages ==
    /\ Scanned => \A lang \in Langs :
         LET packages == PackagesOf(result, lang) IN
         /\ TotalsOf(result, lang)
              = <<SumField(packages, "SourceFileCount"),
                  SumField(packages, "TestFileCount"),
                  SumField(packages, "TestTargetCount")>>
         /\ \A f \in VisitedOf(lang) :
              Cardinality({i \in 1..Len(packages) :
                              packages[i].Path = Dir(f)}) = 1
    /\ Calculated => \A lang \in Langs :
         IF lang \in DOMAIN report[1].LanguageSummaries
         THEN LET summary == report[1].LanguageSummaries[lang]
              IN  TotalsOf(result, lang)
                    = <<summary.TotalSourceFiles, summary.TotalTestFiles,
                        summary.TotalTestTargets>>
         ELSE TotalsOf(result, lang) = <<0, 0, 0>>

\* a report of a tree with Go source and test files in two directories, one
\* of them with a manifest that has a go_test rule
C23_Witness ==
    /\ Calculated
    /\ Len(result.GoPackages) = 2
    /\ result.TotalGoFiles >= 1 /\ result.TotalGoTests >= 1
    /\ result.TotalGoTestRules = 1
    /\ result.TotalBUILDs = 1

\* a report of a tree with a Rust package whose manifest has rust_test rules
\* and a manifest with such rules in a directory without a package
C23_WitnessRust ==
    /\ Calculated
    /\ result.TotalRustTestRules = 2 /\ result.TotalRustTests = 2
    /\ result.TotalBUILDs = 2
    /\ \E f \in files :
         /\ IsManifestName(Base(f)) /\ Reported(f) /\ Parsed(f)
         /\ parseText(content[f]).rustTests = 2
         /\ \A pkg \in AllPackages : pkg.Path # Dir(f)

\* the entries of the directory breakdown with a name
EntriesNamed(name) ==
    {i \in 1..Len(report[1].DirectoryBreakdown) :
        report[1].DirectoryBreakdown[i].Name = name}

\* the name of the entry the claim gives a Go package
EntryNameOf(pkg) ==
    IF pkg.RelPath = "." THEN "(root)" ELSE Segments(pkg.RelPath)[1]

\* C24: in the directory breakdown the Go package with relative path "." is
\* counted in the entry named "(root)" and every other Go package in the
\* entry named after the first segment of its relative path; the names of the
\* entries are pairwise distinct, every entry has TotalPackages >= 1, and the
\* "(root)" entry counts only the root package.
C24_AsStated ==
    Calculated =>
        LET entries == report[1].DirectoryBreakdown
            goPkgs  == PackageSet(result.GoPackages)
        IN  /\ \A pkg \in goPkgs :
                 \E i \in 1..Len(entries) :
                    /\ entries[i].Name = EntryNameOf(pkg)
                    /\ entries[i].TotalPackages
                         = Cardinality({q \in goPkgs :
                                           EntryNameOf(q) = EntryNameOf(pkg)})
            /\ \A i \in 1..Len(entries) :
                 /\ Cardinality(EntriesNamed(entries[i].Name)) = 1
                 /\ entries[i].TotalPackages >= 1
            /\ \A i \in EntriesNamed("(root)") :
                 /\ entries[i].TotalPackages = 1
                 /\ \E pkg \in goPkgs : pkg.RelPath = "."

\* a report of a tree with a Go file in the root and one in the top-level
\* directory named (root): the "(root)" entry counts two packages
C24_Witness ==
    /\ Calculated
    /\ \E pkg \in PackageSet(result.GoPackages) : pkg.RelPath = "."
    /\ \E pkg \in PackageSet(result.GoPackages) : pkg.RelPath = "(root)"
    /\ \E i \in EntriesNamed("(root)") :
         report[1].DirectoryBreakdown[i].TotalPackages >= 2

\* no directory holds both manifest spellings with different contents
SameContents ==
    \A f \in DOMAIN content : \A g \in DOMAIN content :
        Dir(f) = Dir(g) => content[f] = content[g]

\* C25: the result of Scan does not depend on the order of the visits: two
\* scans of the same tree that visit its entries in any two orders return
\* equal package lists and equal totals, provided no directory holds both
\* manifest spellings with different contents.
C25_ScanIndependentOfVisitOrder ==
    (Scanned /\ prev # <<>> /\ SameContents) => result = prev[1].result

\* two scans of a tree that visited BUILD and BUILD.bazel of a directory with
\* a Go package in opposite orders, BUILD.bazel failing to be read, and gave
\* the package the go_test rule of BUILD both times
C25_Witness ==
    /\ Scanned /\ prev # <<>> /\ SameContents
    /\ prev[1].order # order
    /\ \E dir \in Dirs :
         /\ HoldsBoth(dir)
         /\ ReadFails(ManifestOrder(dir)[2])
         /\ \E i \in 1..Len(order) : \E j \in 1..Len(order) :
              /\ i < j
              /\ order[i] = ManifestOrder(dir)[2]
              /\ order[j] = ManifestOrder(dir)[1]
         /\ \E i \in 1..Len(order) : \E j \in 1..Len(order) :
              /\ i < j
              /\ prev[1].order[i] = ManifestOrder(dir)[1]
              /\ prev[1].order[j] = ManifestOrder(dir)[2]
         /\ \E pkg \in PackageSet(result.GoPackages) :
              pkg.Path = dir /\ pkg.TestTargetCount = 1

\* the go test command of the benchmark failed; the runs of the model are
\* told apart by their durations
GoTestFailed(benchmark) ==
    \E run \in GoTestRuns : run.failed /\ run.ms = benchmark.GoTestMs

\* the positions of the processed packages that have the relative path
ProcessedAt(relPath) ==
    {i \in 1..Len(cli.benchmarked) : cli.benchmarked[i].RelPath = relPath}

\* C26: when the benchmark attempt of a candidate fails, the package is
\* omitted from the package list of the speed report, a warning is emitted,
\* Run goes on with the remaining candidates and returns a nil error; the
\* packages whose attempt did not fail are in the report in the order they
\* were processed.
C26_AsStated ==
    pc = "ran" =>
        LET reported == cli.speed[1].Packages IN
        /\ cli.runErr = FALSE
        /\ cli.candidates = <<>>
        /\ \A i \in 1..Len(reported) :
             /\ ~GoTestFailed(reported[i])
             /\ ProcessedAt(reported[i].Path) # {}
        /\ \A i \in 1..Len(reported) : \A j \in 1..Len(reported) :
             i < j => \A a \in ProcessedAt(reported[i].Path) :
                         \A b \in ProcessedAt(reported[j].Path) : a < b

\* Run has returned after two candidates, the go test command of one of them
\* failed, no bazel test failed: both are in the report and there was no
\* warning
C26_Witness ==
    /\ pc = "ran"
    /\ Len(cli.benchmarked) = 2
    /\ Len(cli.speed[1].Packages) = 2
    /\ \E i \in 1..2 : GoTestFailed(cli.speed[1].Packages[i])
    /\ \E i \in 1..2 : ~GoTestFailed(cli.speed[1].Packages[i])
    /\ cli.warnings = 0

\* C27: the exclusion rule is applied to the root itself: when the base name
\* of the root starts with ".", starts with "bazel-" or is on the denylist,
\* nothing below the root is visited and Scan returns a result with no
\* packages, all totals 0 and a nil error.
C27_ExcludedRootScansNothing ==
    (Scanned /\ ExcludedName(Base(repoPath))) =>
        /\ order = <<repoPath>>
        /\ result = NewScanResult
        /\ AllPackages = {}
        /\ \A l \in Langs : TotalsOf(result, l) = <<0, 0, 0>>
        /\ result.TotalBUILDs = 0
        /\ ~scanErr

\* a scan of a root named vendor that holds source files of the three
\* languages and a manifest
C27_Witness ==
    /\ Scanned
    /\ Base(repoPath) = "vendor"
    /\ Cardinality(files) = 4
    /\ \A l \in Langs : \E f \in files : HasSuffix(f, SuffixOf(l))
    /\ \E f \in files : IsManifestName(Base(f))
    /\ order = <<repoPath>>

\* a scan of a root whose name starts with "bazel-" and holds a Go file
C27_WitnessPrefix ==
    /\ Scanned
    /\ HasPrefix(Base(repoPath), "bazel-")
    /\ \E f \in files : HasSuffix(f, ".go")
    /\ result.GoPackages = <<>>

\* a scan of a root whose name starts with "." and holds a Go file
C27_WitnessHidden ==
    /\ Scanned
    /\ HasPrefix(Base(repoPath), ".")
    /\ \E f \in files : HasSuffix(f, ".go")
    /\ result.GoPackages = <<>>

\* a scan of a root with a plain name below a directory named vendor finds
\* the Go package of the root
C27_WitnessBelowExcluded ==
    /\ Scanned
    /\ repoPath = "/vendor/r"
    /\ \E pkg \in PackageSet(result.GoPackages) : pkg.RelPath = "."

\* the manifests the walk reported to the callback
VisitedManifests == {f \in files : IsManifestName(Base(f)) /\ Reported(f)}

\* the number of packages of a list that have HasBuildFile
WithBuildFile(packages) ==
    Cardinality({i \in 1..Len(packages) : packages[i].HasBuildFile})

\* C28: TotalBUILDs counts every visited file named BUILD or BUILD.bazel,
\* whether or not it parses and whether or not its directory holds a package;
\* so for every language the number of packages with HasBuildFile is at most
\* TotalBUILDs, and in a report with a Go package summary.packagesWithBuild
\* is at most summary.totalBuildFiles.
C28_BuildFilesCounted ==
    /\ Scanned =>
         /\ result.TotalBUILDs = Cardinality(VisitedManifests)
         /\ \A l \in Langs :
              WithBuildFile(PackagesOf(result, l)) <= result.TotalBUILDs
    /\ (Calculated /\ Len(result.GoPackages) > 0) =>
         /\ report[1].Summary.TotalBuildFiles = Cardinality(VisitedManifests)
         /\ report[1].Summary.PackagesWithBuild
              = WithBuildFile(result.GoPackages)
         /\ report[1].Summary.PackagesWithBuild
              <= report[1].Summary.TotalBuildFiles

\* a report of a tree with a manifest that cannot be opened next to a Go
\* file, a manifest in a directory without a package, and a Go file in a
\* directory named BUILD
C28_Witness ==
    /\ Calculated
    /\ \E f \in VisitedManifests : OpenFails(f)
    /\ \E f \in VisitedManifests : \A pkg \in AllPackages : pkg.Path # Dir(f)
    /\ \E pkg \in PackageSet(result.GoPackages) : Base(pkg.Path) = "BUILD"
    /\ report[1].Summary.TotalBuildFiles = 2
    /\ report[1].Summary.PackagesWithBuild = 1

\* C29: the bazelized-tests percentage of the Rust language summary is 0
\* when no Rust package has test files and exactly 100 otherwise, because
\* every Rust package with HasTestFiles has TestTargetCount > 0.
C29_RustBazelizedTestsAllOrNothing ==
    /\ Scanned => \A pkg \in PackageSet(result.RustPackages) :
         pkg.HasTestFiles => pkg.TestTargetCount > 0
    /\ (Calculated /\ LangRust \in DOMAIN report[1].LanguageSummaries) =>
         LET pct == report[1].LanguageSummaries[LangRust].BazelizedTestsPct
         IN  IF \E pkg \in PackageSet(result.RustPackages) : pkg.HasTestFiles
             THEN PctIs(pct, 100)
             ELSE PctIs(pct, 0)

\* a report with two Rust packages, one with rust_test rules in its manifest
\* and one without test files: the percentage is 100
C29_Witness ==
    /\ Calculated
    /\ LangRust \in DOMAIN report[1].LanguageSummaries
    /\ \E pkg \in PackageSet(result.RustPackages) : pkg.HasTestFiles
    /\ \E pkg \in PackageSet(result.RustPackages) : ~pkg.HasTestFiles
    /\ PctIs(report[1].LanguageSummaries[LangRust].BazelizedTestsPct, 100)

\* a report with a Rust package whose manifest has no rust_test rule: the
\* percentage is 0
C29_WitnessNoTests ==
    /\ Calculated
    /\ \E pkg \in PackageSet(result.RustPackages) :
         pkg.HasBuildFile /\ pkg.LibraryTargets + pkg.BinaryTargets
                               + pkg.TestTargetCount = 0
    /\ \A pkg \in PackageSet(result.RustPackages) : ~pkg.HasTestFiles
    /\ PctIs(report[1].LanguageSummaries[LangRust].BazelizedTestsPct, 0)

====
